---- MODULE Spec2Model ----
(***************************************************************************)
(* Model of the Tusk test runner (Use-Tusk/test-runner):                   *)
(*   - the long-poll / dedup / ack / dispatch loop of src/index.ts (run),  *)
(*   - the bounded-concurrency executor of src/handleCommands.ts           *)
(*     (processCommands on the Bottleneck limiter of src/limiter.ts),      *)
(*   - the retry wrapper of src/requests.ts (withRetry),                   *)
(*   - the maxConcurrency resolution of src/limiter.ts,                    *)
(*   - the command handlers of src/handleCommands.ts (processFileCommand,  *)
(*     processRunnerCommand, executeScript, setupPaths, the templates).    *)
(*                                                                         *)
(* Nine specifications share the variables:                                *)
(*   Spec       the dispatch loop together with the executor, the limiter  *)
(*              built with the default maxConcurrency,                     *)
(*   SpecLive   Spec with the awaits of the loop settling (fairness),      *)
(*   SpecCycle  the first cycle of the loop, with longer poll responses,   *)
(*   SpecExec   the executor on its own, given batch after batch,          *)
(*   SpecRetry  one call of withRetry, stepped attempt by attempt,         *)
(*   SpecCfg    the start-up resolution of maxConcurrency,                 *)
(*   SpecCmd    the handlers, the commands given to them running together, *)
(*   SpecPath   one call of setupPaths and the paths of the test script,   *)
(*   SpecTemplate  one rendering of a script template.                     *)
(* Time is in seconds.  The clock advances with the setTimeout sleeps of   *)
(* the loop, the backoff sleeps of withRetry inside the acks and the 5 s   *)
(* after which a request that is not answered is given up; a request that  *)
(* is answered takes no model time.  The timeouts of the child processes   *)
(* are in milliseconds.                                                    *)
(***************************************************************************)
EXTENDS Integers, Sequences, FiniteSets, TLC

VARIABLES
  \* ---- src/index.ts run() ----
  pc,                     \* position of run(): top, poll, ack, errwait, sleep, exited
  now,                    \* Date.now() in seconds since startTime
  lastCommandReceivedTime,
  consecutiveErrorCount,
  pendingAckCommands,     \* Map id -> command, kept as the sequence of its keys in insertion order
  commandsSentToProcess,  \* Set of ids
  ackOutcome,             \* per id: none | inflight | ok | fail  (ackOperationPromises of the cycle)
  ackStart,               \* Date.now() when the acks of the cycle were issued, 0 outside an ack round
  exitCode,               \* -1 while running, else the argument of process.exit
  exitReason,
  \* ---- src/handleCommands.ts processCommands / src/limiter.ts limiter ----
  maxConcurrency,
  queue,                  \* jobs QUEUED in the limiter, head first
  running,                \* jobs executing
  jobStatus,              \* per id: none | queued | running | resolved | rejected | unscheduled
  totalErrorCount,
  \* ---- observation (history) ----
  dispatchLog,            \* the batches handed to processCommands, in order
  scheduleLog,            \* ids passed to limiter.schedule, in order
  startLog,               \* ids whose processFn was started by the limiter, in order
  ackedOk,                \* ids whose ackCommand has ever resolved
  repolled,               \* what the poll response of this cycle repeated (RepeatsOf)
  \* ---- src/requests.ts withRetry (SpecRetry) ----
  rPc,                    \* idle | try | wait | returned | thrown
  rOp,                    \* which request is wrapped
  attempt,                \* loop variable of withRetry
  rLog,                   \* outcome of every attempt made so far
  rDelays,                \* delayMs of every backoff sleep so far
  rResult,                \* outcome returned / error rethrown
  \* ---- src/limiter.ts resolution (SpecCfg) ----
  cPc,                    \* input | fetched | resolved
  stepInputMaxConcurrencyStr,
  fetchOutcome,           \* what getTestingSandboxConfigInfo did
  serverConfigMaxConcurrency,
  cfgMaxConcurrency,
  cfgSource,
  \* ---- src/handleCommands.ts processFileCommand / processRunnerCommand (SpecCmd) ----
  hPc,                    \* per command given to processCommands, its position: scheduled,
                          \* write, lint, read, test, coverage, delete, send, resolved,
                          \* rejected, unscheduled
  command,                \* the commands given to processCommands, in order (type, action
                          \* and the data the handlers read)
  scripts,                \* ScriptData: the test, lint and coverage script templates
  disk,                   \* contents of the file at the resolved path, UNDEFINED if absent
  parentDirExists,        \* whether the directory of the resolved path exists
  result,                 \* per command, the local variable result of its process function
  commandResults,         \* arguments of the sendCommandResult calls, in the order of the calls
  \* ---- src/handleCommands.ts setupPaths (SpecPath) ----
  pPc,                    \* input | resolved | templated
  data,                   \* IFileCommandData: appDir, filePath, originalFilePath
  paths,                  \* what setupPaths returned
  testContext,            \* the paths handleTestAction gives to the test template
  \* ---- Handlebars.compile(template)(context) (SpecTemplate) ----
  tPc,                    \* input | rendered
  template,
  context,
  rendered

loopVars  == <<pc, now, lastCommandReceivedTime, consecutiveErrorCount, pendingAckCommands,
               commandsSentToProcess, ackOutcome, ackStart, exitCode, exitReason>>
execVars  == <<maxConcurrency, queue, running, jobStatus, totalErrorCount>>
histVars  == <<dispatchLog, scheduleLog, startLog, ackedOk, repolled>>
retryVars == <<rPc, rOp, attempt, rLog, rDelays, rResult>>
cfgVars   == <<cPc, stepInputMaxConcurrencyStr, fetchOutcome, serverConfigMaxConcurrency,
               cfgMaxConcurrency, cfgSource>>
cmdVars   == <<hPc, command, scripts, disk, parentDirExists, result, commandResults>>
pathVars  == <<pPc, data, paths, testContext>>
tplVars   == <<tPc, template, context, rendered>>
handlerVars == <<cmdVars, pathVars, tplVars>>
vars      == <<loopVars, execVars, histVars, retryVars, cfgVars, handlerVars>>

(***************************************************************************)
(* Bounds of the model                                                     *)
(***************************************************************************)
NumIds          == 5      \* command ids that exist: 1..NumIds
MaxBatch        == 3      \* longest batch handed to processCommands on its own
MaxPollLen      == 2      \* longest poll response
MaxLimit        == 2      \* largest maxConcurrency of the executor on its own
PollingDuration == 1255   \* input pollingDuration (seconds)
PollingInterval == 250    \* input pollingInterval (seconds)
MaxResponse     == 3      \* longest poll response of the first cycle on its own
MaxStrLen       == 2      \* longest maxConcurrency step input (characters)
MaxServerValue  == 2      \* largest server-side maxConcurrency
MaxCommands     == 2      \* commands given to the handlers on their own
MaxAppDirLen    == 1      \* longest appDir (characters)
MaxPathLen      == 5      \* longest filePath (characters)
MaxOriginalLen  == 3      \* longest originalFilePath (characters)
MaxTemplateLen  == 2      \* longest script template (characters of text and placeholders)
MaxValueLen     == 2      \* longest value supplied for {{file}} (characters)

(***************************************************************************)
(* Program constants                                                       *)
(***************************************************************************)
inactivityTimeoutSeconds == 1200
MAX_CONSECUTIVE_ERRORS   == 5
ErrorDelaySeconds        == 5
timeoutSeconds           == 5
DEFAULT_MAX_CONCURRENCY  == 5
maxRetries               == 3

NONE == "none"

Range(s) == {s[i] : i \in 1..Len(s)}

Min(a, b) == IF a <= b THEN a ELSE b

Max(a, b) == IF a >= b THEN a ELSE b

(***************************************************************************)
(* src/requests.ts: withRetry                                              *)
(***************************************************************************)
\* What one call of requestFn can do: resolve, or reject with an error.
\* An error carries what withRetry and run() inspect: axios.isAxiosError,
\* error.response?.status (0: no response), error.code, error.message.
OK == [kind |-> "ok", isAxiosError |-> FALSE, status |-> 0, code |-> NONE, message |-> NONE]

HttpError(st) ==
  [kind |-> "error", isAxiosError |-> TRUE, status |-> st,
   code |-> IF st >= 500 THEN "ERR_BAD_RESPONSE" ELSE "ERR_BAD_REQUEST",
   message |-> "Request failed with status code"]

TransportError(c, m) ==
  [kind |-> "error", isAxiosError |-> TRUE, status |-> 0, code |-> c, message |-> m]

ConnectionReset == TransportError("ECONNRESET", "read ECONNRESET")
RequestTimeout  == TransportError("ECONNABORTED", "timeout of 5000ms exceeded")
DnsRetry        == TransportError("EAI_AGAIN", "getaddrinfo EAI_AGAIN")
Canceled        == TransportError("ERR_CANCELED", "canceled")

\* What a request that is not answered rejects with: the axios timeout of
\* requests.ts:61 or the abort signal of requests.ts:62, whichever fires
PollTimeouts == {RequestTimeout, Canceled}

\* requests.ts:7 and 61-62: the time a request takes to reject.  A request
\* that is not answered is given up after timeoutMs; any other outcome is
\* the server's or the network's and takes no model time.
SecondsOf(outcome) == IF outcome \in PollTimeouts THEN timeoutSeconds ELSE 0

HttpStatuses == {401, 404, 500, 501, 502, 503, 504}

Failures == {HttpError(st) : st \in HttpStatuses}
              \cup {ConnectionReset, RequestTimeout, DnsRetry, Canceled}

Outcomes == {OK} \cup Failures

retryableStatusCodes == {500, 502, 503, 504}

\* requests.ts:25-29, the test that guards the retry branch
ShouldRetry(error) ==
  /\ error.isAxiosError
  /\ error.status # 0
  /\ error.status \in retryableStatusCodes

\* getTestingSandboxConfigInfo is not in src/src/requests.ts; the revision of
\* requests.ts that has it (src/unnamed/part_001:494-525) wraps it in its own
\* withRetry (part_001:350-404), which also retries transport errors and
\* cancellations
retryableErrorCodes == {"ECONNABORTED", "ECONNRESET", "EAI_AGAIN"}

retryableErrorMessages == {"canceled"}

\* part_001:361-387, shouldRetry
ShouldRetryConfig(error) ==
  \/ ShouldRetry(error)
  \/ error.isAxiosError /\ error.code # NONE /\ error.code \in retryableErrorCodes
  \/ error.message \in retryableErrorMessages

\* The retry test of the withRetry that wraps the request op
ShouldRetryOf(op, error) ==
  IF op = "getTestingSandboxConfigInfo" THEN ShouldRetryConfig(error) ELSE ShouldRetry(error)

RECURSIVE Pow2(_)
Pow2(n) == IF n = 0 THEN 1 ELSE 2 * Pow2(n - 1)

\* Mutant of DelayMs: the delay grows by one second per retry
DelayMs_Linear(att) == (att + 1) * 1000

\* requests.ts:31
DelayMs(att) == Pow2(att) * 1000

\* requests.ts:18, the loop condition
LoopContinues(att) == att < maxRetries + 1

\* Mutant of RetriesRemain: off by one
RetriesRemain_OffByOne(att) == att <= maxRetries

\* requests.ts:30
RetriesRemain(att) == att < maxRetries

\* The outcome the server gives to attempt number att (0-based) of a call
\* whose successive outcomes are script; the last one repeats.
OutcomeAt(script, att) == script[Min(att + 1, Len(script))]

\* withRetry run to completion on a script of attempt outcomes:
\* the attempts made, the backoff delays slept, and the value or error.
RECURSIVE WithRetryFrom(_, _, _, _)
WithRetryFrom(op, script, att, delays) ==
  LET o == OutcomeAt(script, att) IN
  IF ~LoopContinues(att)
    THEN [ok |-> FALSE, attempts |-> att, delays |-> delays, last |-> OutcomeAt(script, att - 1)]
  ELSE IF o.kind = "ok"
    THEN [ok |-> TRUE, attempts |-> att + 1, delays |-> delays, last |-> o]
  ELSE IF ShouldRetryOf(op, o) /\ RetriesRemain(att)
    THEN WithRetryFrom(op, script, att + 1, Append(delays, DelayMs(att)))
  ELSE [ok |-> FALSE, attempts |-> att + 1, delays |-> delays, last |-> o]

withRetry(op, script) == WithRetryFrom(op, script, 0, <<>>)

RECURSIVE SumOf(_)
SumOf(numbers) == IF numbers = <<>> THEN 0 ELSE Head(numbers) + SumOf(Tail(numbers))

\* requests.ts:35, the time one call of withRetry spends in its backoff
\* sleeps, in seconds
SleptSeconds(delays) == SumOf(delays) \div 1000

\* The time the first attempts of a call spend waiting for an answer that
\* does not come
RECURSIVE WaitedSeconds(_, _)
WaitedSeconds(script, attempts) ==
  IF attempts = 0 THEN 0
  ELSE WaitedSeconds(script, attempts - 1) + SecondsOf(OutcomeAt(script, attempts - 1))

\* The time one call of withRetry takes, in seconds
ElapsedSeconds(script, call) ==
  SleptSeconds(call.delays) + WaitedSeconds(script, call.attempts)

RetryOps == {"ackCommand", "sendCommandResult", "getTestingSandboxConfigInfo"}

RetryIdle ==
  /\ rPc = "idle" /\ rOp = NONE /\ attempt = 0
  /\ rLog = <<>> /\ rDelays = <<>> /\ rResult = NONE

InitRetry ==
  /\ rPc = "try"
  /\ rOp \in RetryOps
  /\ attempt = 0
  /\ rLog = <<>>
  /\ rDelays = <<>>
  /\ rResult = NONE

\* requests.ts:20, requestFn resolves: withRetry returns its value
AttemptResolves ==
  /\ rPc = "try"
  /\ LoopContinues(attempt)
  /\ rLog' = Append(rLog, OK)
  /\ rResult' = OK
  /\ rPc' = "returned"
  /\ UNCHANGED <<rOp, attempt, rDelays>>

\* requests.ts:21-41, requestFn rejects: back off and continue, or rethrow
AttemptRejects(error) ==
  /\ rPc = "try"
  /\ LoopContinues(attempt)
  /\ rLog' = Append(rLog, error)
  /\ IF ShouldRetryOf(rOp, error) /\ RetriesRemain(attempt)
       THEN /\ rDelays' = Append(rDelays, DelayMs(attempt))
            /\ rPc' = "wait"
            /\ UNCHANGED rResult
       ELSE /\ rResult' = error
            /\ rPc' = "thrown"
            /\ UNCHANGED rDelays
  /\ UNCHANGED <<rOp, attempt>>

\* requests.ts:35-36, the backoff sleep ends; continue with attempt++
BackoffElapsed ==
  /\ rPc = "wait"
  /\ attempt' = attempt + 1
  /\ rPc' = "try"
  /\ UNCHANGED <<rOp, rLog, rDelays, rResult>>

(***************************************************************************)
(* src/limiter.ts: resolution of maxConcurrency                            *)
(***************************************************************************)
\* An optional number (number | undefined, or the NaN of parseInt) is a
\* sequence: empty when there is no number, else the one number.
UNDEFINED == <<>>
NaN       == <<>>
Num(n)    == <<n>>

Digits == <<"0", "1", "2", "3", "4", "5", "6", "7", "8", "9">>
IsDigit(c) == \E i \in 1..10 : Digits[i] = c
DigitVal(c) == (CHOOSE i \in 1..10 : Digits[i] = c) - 1

\* Characters a step input is made of in the model
InputChars == {"0", "1", "3", "-", "x"}

RECURSIVE StringsOfLen(_)
StringsOfLen(n) ==
  IF n = 0 THEN {<<>>}
  ELSE {Append(s, c) : s \in StringsOfLen(n - 1), c \in InputChars}

StepInputs == UNION {StringsOfLen(n) : n \in 0..MaxStrLen}

\* The longest prefix of digits of s, read as a decimal number from acc on
RECURSIVE ParseDigits(_, _)
ParseDigits(s, acc) ==
  IF s = <<>> \/ ~IsDigit(Head(s)) THEN acc
  ELSE ParseDigits(Tail(s), 10 * acc + DigitVal(Head(s)))

\* parseInt(s, 10) of ECMAScript on a string without leading white space:
\* an optional sign, then the longest prefix of digits; NaN if there is none.
parseInt(s) ==
  LET neg  == s # <<>> /\ Head(s) = "-"
      body == IF s # <<>> /\ Head(s) \in {"-", "+"} THEN Tail(s) ELSE s
  IN IF body = <<>> \/ ~IsDigit(Head(body)) THEN NaN
     ELSE IF neg THEN Num(0 - ParseDigits(body, 0)) ELSE Num(ParseDigits(body, 0))

\* What GET /test-execution-config answers when the request itself succeeds
\* (requests: getTestingSandboxConfigInfo): null, or the config info.
ServerValues == {UNDEFINED} \cup {Num(v) : v \in -1..MaxServerValue}

ConfigResponses ==
  {[isNull |-> TRUE, maxConcurrency |-> UNDEFINED, testingSandboxConfigId |-> NONE]}
    \cup {[isNull |-> FALSE, maxConcurrency |-> v, testingSandboxConfigId |-> id] :
            v \in ServerValues, id \in {NONE, "cfg"}}

\* Attempt outcomes of the wrapped request used where a whole call is one step
RequestScripts ==
  { <<OK>>, <<HttpError(503), OK>>, <<HttpError(503)>>, <<HttpError(404)>>,
    <<HttpError(401)>>, <<ConnectionReset>> }

\* limiter.ts:9-18
FetchedMaxConcurrency(script, response) ==
  IF withRetry("getTestingSandboxConfigInfo", script).ok /\ ~response.isNull
  THEN response.maxConcurrency ELSE UNDEFINED

\* JavaScript truthiness of `x && x > 0` for a number or undefined
PositiveNumber(x) == x # UNDEFINED /\ x[1] # 0 /\ x[1] > 0

\* limiter.ts:33-59
ResolveMaxConcurrency(inputStr, serverValue) ==
  IF inputStr # <<>>
    THEN LET parsedInput == parseInt(inputStr) IN
         IF parsedInput # NaN /\ parsedInput[1] > 0
           THEN [maxConcurrency |-> parsedInput[1], source |-> "step input"]
         ELSE IF PositiveNumber(serverValue)
           THEN [maxConcurrency |-> serverValue[1], source |-> "server config"]
         ELSE [maxConcurrency |-> DEFAULT_MAX_CONCURRENCY, source |-> "default (invalid step input)"]
  ELSE IF PositiveNumber(serverValue)
    THEN [maxConcurrency |-> serverValue[1], source |-> "server config"]
  ELSE [maxConcurrency |-> DEFAULT_MAX_CONCURRENCY, source |-> "default"]

CfgIdle ==
  /\ cPc = "idle" /\ stepInputMaxConcurrencyStr = <<>> /\ fetchOutcome = NONE
  /\ serverConfigMaxConcurrency = UNDEFINED /\ cfgMaxConcurrency = 0 /\ cfgSource = NONE

InitCfg ==
  /\ cPc = "input"
  /\ stepInputMaxConcurrencyStr \in StepInputs
  /\ fetchOutcome = NONE
  /\ serverConfigMaxConcurrency = UNDEFINED
  /\ cfgMaxConcurrency = 0
  /\ cfgSource = NONE

\* limiter.ts:12-18, the fetch of the execution config, failure swallowed
FetchConfig(script, response) ==
  /\ cPc = "input"
  /\ fetchOutcome' = IF ~withRetry("getTestingSandboxConfigInfo", script).ok THEN "threw"
                     ELSE IF response.isNull THEN "null" ELSE "info"
  /\ serverConfigMaxConcurrency' = FetchedMaxConcurrency(script, response)
  /\ cPc' = "fetched"
  /\ UNCHANGED <<stepInputMaxConcurrencyStr, cfgMaxConcurrency, cfgSource>>

\* limiter.ts:26-66, resolution and construction of the limiter
Resolve ==
  /\ cPc = "fetched"
  /\ LET r == ResolveMaxConcurrency(stepInputMaxConcurrencyStr, serverConfigMaxConcurrency) IN
       /\ cfgMaxConcurrency' = r.maxConcurrency
       /\ cfgSource' = r.source
  /\ cPc' = "resolved"
  /\ UNCHANGED <<stepInputMaxConcurrencyStr, fetchOutcome, serverConfigMaxConcurrency>>

(***************************************************************************)
(* Commands (types.ts: IActionCommand).  A command is known by its id; its *)
(* payload never changes.                                                  *)
(***************************************************************************)
Ids == 1..NumIds

\* command.command.type
CommandTypeOf(id) ==
  CASE id = 1 -> "file"
    [] id = 2 -> "runner"
    [] id = 3 -> "runner"
    [] id = 4 -> "other"
    [] OTHER  -> "file"

\* command.command.action
CommandActionOf(id) ==
  CASE id = 1 -> "write"
    [] id = 2 -> "script"
    [] id = 3 -> "terminate"
    [] id = 4 -> "other"
    [] OTHER  -> "read"

\* The commands the control plane issues to the loop: a file command, a
\* runner script and a terminate command
PolledIds == {1, 2, 3}

\* index.ts:147-149
IsTerminate(id) == CommandTypeOf(id) = "runner" /\ CommandActionOf(id) = "terminate"

RECURSIVE SeqsOfLen(_, _)
SeqsOfLen(S, n) ==
  IF n = 0 THEN {<<>>}
  ELSE {Append(q, id) : q \in SeqsOfLen(S, n - 1), id \in S}

RECURSIVE Flatten(_)
Flatten(batches) ==
  IF batches = <<>> THEN <<>> ELSE Head(batches) \o Flatten(Tail(batches))

\* The ids handed to processCommands so far, in order
Dispatched == Flatten(dispatchLog)

IsInjective(q) == \A i, j \in 1..Len(q) : q[i] = q[j] => i = j

\* What GET /poll-commands can return: any commands, repeats included
PollResponses == UNION {SeqsOfLen(PolledIds, n) : n \in 0..MaxPollLen}

\* Errors pollCommands can reject with
ConnectionAborted == TransportError("ECONNABORTED", "write ECONNABORTED")
PollFailures == Failures \cup {ConnectionAborted}

\* index.ts:189, error.message.includes("ECONNABORTED")
MessageIncludesECONNABORTED(error) == error.message \in {"write ECONNABORTED"}

(***************************************************************************)
(* src/limiter.ts + src/handleCommands.ts: the limiter and processCommands *)
(***************************************************************************)
\* The Bottleneck limiter built with maxConcurrent: while a slot is free the
\* job at the head of the queue is started.  Returns the queue and running
\* set left, and the jobs started in order.
RECURSIVE Drain(_, _, _, _)
Drain(q, r, started, limit) ==
  IF q # <<>> /\ Cardinality(r) < limit
    THEN Drain(Tail(q), r \cup {Head(q)}, Append(started, Head(q)), limit)
    ELSE [queue |-> q, running |-> r, started |-> started]

\* Mutant of Enqueue: the new jobs go in front of the waiting ones
Enqueue_InFront(q, scheduled) == scheduled \o q

\* handleCommands.ts:112, limiter.schedule(processFn) for each command in turn
Enqueue(q, scheduled) == q \o scheduled

\* Mutant of SlotsOf: processFn is started whether or not a slot is free
SlotsOf_Unbounded(limit) == limit + NumIds

\* limiter.ts:63-66, maxConcurrent of the limiter the jobs are scheduled on
SlotsOf(limit) == limit

\* handleCommands.ts:96-110, is the command given a processFn and scheduled
IsSchedulable(id) == CommandTypeOf(id) \in {"file", "runner"}

\* handleCommands.ts:93-120, the commands that processCommands passes to
\* limiter.schedule, in order
ScheduledOf(commands) == SelectSeq(commands, IsSchedulable)

\* handleCommands.ts:100-110, the commands resolved at once as errors
UnscheduledOf(commands) == {id \in Range(commands) : ~IsSchedulable(id)}

(***************************************************************************)
(* src/index.ts: run()                                                     *)
(***************************************************************************)
\* index.ts:66-82, the dedup of one poll response into pendingAckCommands
RECURSIVE AddPolled(_, _, _)
AddPolled(pending, sent, polledCommands) ==
  IF polledCommands = <<>> THEN pending
  ELSE LET polledCmd == Head(polledCommands) IN
       IF polledCmd \notin Range(pending) /\ polledCmd \notin sent
         THEN AddPolled(Append(pending, polledCmd), sent, Tail(polledCommands))
         ELSE AddPolled(pending, sent, Tail(polledCommands))

\* The ways in which a poll response brings an id again: twice within the
\* response, while the id is pending acknowledgment, after the id was sent
\* to process.  index.ts:68 passes over each of them.
RepeatsOf(pending, sent, polledCommands) ==
  {kind \in {"response", "pending", "sent"} :
     \/ kind = "response" /\ ~IsInjective(polledCommands)
     \/ kind = "pending" /\ Range(polledCommands) \cap Range(pending) # {}
     \/ kind = "sent" /\ Range(polledCommands) \cap sent # {}}

\* Mutant of SuccessfullyAcked: the acknowledged commands are taken last first
SuccessfullyAcked_Reversed(commandsToAttemptAck, outcome, sent) ==
  LET acked == SelectSeq(commandsToAttemptAck, LAMBDA id : outcome[id] = "ok" /\ id \notin sent)
  IN [i \in 1..Len(acked) |-> acked[Len(acked) + 1 - i]]

\* Mutant of SuccessfullyAcked: the ack outcome is not looked at
SuccessfullyAcked_AnyOutcome(commandsToAttemptAck, outcome, sent) ==
  SelectSeq(commandsToAttemptAck, LAMBDA id : outcome[id] \in {"ok", "fail"} /\ id \notin sent)

\* Mutant of SuccessfullyAcked: only the first acknowledged command is kept
SuccessfullyAcked_FirstOnly(commandsToAttemptAck, outcome, sent) ==
  LET acked == SelectSeq(commandsToAttemptAck, LAMBDA id : outcome[id] = "ok" /\ id \notin sent)
  IN IF acked = <<>> THEN <<>> ELSE <<Head(acked)>>

\* index.ts:105-138, the acks of the cycle that succeeded and are not yet
\* sent to process, in the order of commandsToAttemptAck
SuccessfullyAcked(commandsToAttemptAck, outcome, sent) ==
  SelectSeq(commandsToAttemptAck, LAMBDA id : outcome[id] = "ok" /\ id \notin sent)

\* Mutant of StillPending: the map is cleared after every ack round
StillPending_Cleared(commandsToAttemptAck, outcome) == <<>>

\* Mutant of StillPending: an acknowledged command is not deleted from the map
StillPending_KeepsAcked(commandsToAttemptAck, outcome) == commandsToAttemptAck

\* index.ts:113-114, what stays in pendingAckCommands after the cycle
StillPending(commandsToAttemptAck, outcome) ==
  SelectSeq(commandsToAttemptAck, LAMBDA id : outcome[id] # "ok")

\* Mutant of TerminateCommands: a terminate command is not looked for
TerminateCommands_None(acked) == <<>>

\* index.ts:146-150, successfullyAckedCommands.find(terminate)
TerminateCommands(acked) == SelectSeq(acked, IsTerminate)

\* Mutant of MarkSent: the dispatched ids are not recorded
MarkSent_NotRecorded(sent, commands) == sent

\* index.ts:161-165, commandsSentToProcess.add for every dispatched command
MarkSent(sent, commands) == sent \cup Range(commands)

NoAcks == [id \in Ids |-> "none"]

InitLoop ==
  /\ pc = "top"
  /\ now = 0
  /\ lastCommandReceivedTime = 0
  /\ consecutiveErrorCount = 0
  /\ pendingAckCommands = <<>>
  /\ commandsSentToProcess = {}
  /\ ackOutcome = NoAcks
  /\ ackStart = 0
  /\ exitCode = -1
  /\ exitReason = NONE
  /\ maxConcurrency = DEFAULT_MAX_CONCURRENCY
  /\ queue = <<>>
  /\ running = {}
  /\ jobStatus = [id \in Ids |-> "none"]
  /\ totalErrorCount = 0
  /\ dispatchLog = <<>>
  /\ scheduleLog = <<>>
  /\ startLog = <<>>
  /\ ackedOk = {}
  /\ repolled = {}

LoopIdle ==
  /\ pc = "idle" /\ now = 0 /\ lastCommandReceivedTime = 0 /\ consecutiveErrorCount = 0
  /\ pendingAckCommands = <<>> /\ commandsSentToProcess = {} /\ ackOutcome = NoAcks
  /\ ackStart = 0
  /\ exitCode = -1 /\ exitReason = NONE /\ ackedOk = {} /\ repolled = {}

LimiterIdle ==
  /\ queue = <<>> /\ running = {}
  /\ jobStatus = [id \in Ids |-> "none"] /\ totalErrorCount = 0
  /\ dispatchLog = <<>> /\ scheduleLog = <<>> /\ startLog = <<>>

ExecIdle == maxConcurrency = 1 /\ LimiterIdle

NoScripts == [test |-> UNDEFINED, lint |-> UNDEFINED, coverage |-> UNDEFINED]

NoResult == [stdout |-> <<>>, stderr |-> <<>>, exitCode |-> [number |-> -1], error |-> UNDEFINED,
             fileContents |-> UNDEFINED, type |-> NONE]

CmdIdle ==
  /\ hPc = <<>> /\ command = <<>> /\ scripts = NoScripts /\ disk = UNDEFINED
  /\ parentDirExists = FALSE
  /\ result = <<>> /\ commandResults = <<>>

PathIdle == pPc = "idle" /\ data = <<>> /\ paths = <<>> /\ testContext = <<>>

TemplateIdle == tPc = "idle" /\ template = <<>> /\ context = <<>> /\ rendered = <<>>

HandlerIdle == CmdIdle /\ PathIdle /\ TemplateIdle

\* Mutant of Exit: the exit code is always 0
Exit_AlwaysZero(code, reason) ==
  /\ pc' = "exited"
  /\ exitCode' = 0
  /\ exitReason' = reason

\* process.exit(code)
Exit(code, reason) ==
  /\ pc' = "exited"
  /\ exitCode' = code
  /\ exitReason' = reason

\* Mutant of LoopCondition: one more cycle is begun after the end time
LoopCondition_OneMore(t) == t < PollingDuration + PollingInterval

\* index.ts:42, Date.now() < endTime
LoopCondition(t) == t < PollingDuration

\* Mutant of Inactive: the window is measured from the start of the run
Inactive_SinceStart(t, last) == t > inactivityTimeoutSeconds

\* index.ts:44, the inactivity test
Inactive(t, last) == t - last > inactivityTimeoutSeconds

\* index.ts:42-49 and 227-229: the loop condition and the inactivity check
LoopTop ==
  /\ pc = "top"
  /\ IF ~LoopCondition(now)
       THEN Exit(0, "duration")
     ELSE IF Inactive(now, lastCommandReceivedTime)
       THEN Exit(0, "inactivity")
     ELSE /\ pc' = "poll"
          /\ UNCHANGED <<exitCode, exitReason>>
  /\ UNCHANGED <<now, lastCommandReceivedTime, consecutiveErrorCount, pendingAckCommands,
                 commandsSentToProcess, ackOutcome, ackStart>>
  /\ UNCHANGED <<execVars, histVars, retryVars, cfgVars, handlerVars>>

\* index.ts:58-91: pollCommands resolves; dedup; the acks are issued
PollReturns(polledCommands) ==
  /\ pc = "poll"
  /\ consecutiveErrorCount' = 0
  /\ lastCommandReceivedTime' =
       IF Len(polledCommands) > 0 THEN now ELSE lastCommandReceivedTime
  /\ pendingAckCommands' = AddPolled(pendingAckCommands, commandsSentToProcess, polledCommands)
  /\ IF Len(pendingAckCommands') > 0
       THEN /\ pc' = "ack"
            /\ ackOutcome' = [id \in Ids |->
                 IF id \in Range(pendingAckCommands') THEN "inflight" ELSE "none"]
            /\ ackStart' = now
       ELSE /\ pc' = "sleep"
            /\ ackOutcome' = NoAcks
            /\ ackStart' = 0
  /\ repolled' = RepeatsOf(pendingAckCommands, commandsSentToProcess, polledCommands)
  /\ UNCHANGED <<now, commandsSentToProcess, exitCode, exitReason>>
  /\ UNCHANGED <<dispatchLog, scheduleLog, startLog, ackedOk>>
  /\ UNCHANGED <<execVars, retryVars, cfgVars, handlerVars>>

\* Mutant of BudgetExhausted: one failure too many is allowed
BudgetExhausted_OneLate(count) == count > MAX_CONSECUTIVE_ERRORS

\* index.ts:214, the test of the consecutive poll-error budget
BudgetExhausted(count) == count >= MAX_CONSECUTIVE_ERRORS

\* Mutant of PollThrows: the commands pending acknowledgment are forgotten
PollThrows_ForgetsPending(error) ==
  /\ pc = "poll"
  /\ pendingAckCommands' = <<>>
  /\ IF MessageIncludesECONNABORTED(error)
       THEN /\ pc' = "sleep"
            /\ UNCHANGED <<consecutiveErrorCount, exitCode, exitReason>>
       ELSE /\ consecutiveErrorCount' = consecutiveErrorCount + 1
            /\ IF error.status = 401
                 THEN Exit(1, "unauthorized")
               ELSE IF BudgetExhausted(consecutiveErrorCount')
                 THEN Exit(1, "poll errors")
               ELSE /\ pc' = "errwait"
                    /\ UNCHANGED <<exitCode, exitReason>>
  /\ now' = now + SecondsOf(error)
  /\ UNCHANGED <<lastCommandReceivedTime, commandsSentToProcess, ackOutcome, ackStart>>
  /\ UNCHANGED <<execVars, histVars, retryVars, cfgVars, handlerVars>>

\* index.ts:187-222: pollCommands rejects, a poll that was not answered
\* after the 5 s of its timeout
PollThrows(error) ==
  /\ pc = "poll"
  /\ now' = now + SecondsOf(error)
  /\ IF MessageIncludesECONNABORTED(error)
       THEN /\ pc' = "sleep"
            /\ UNCHANGED <<consecutiveErrorCount, exitCode, exitReason>>
       ELSE /\ consecutiveErrorCount' = consecutiveErrorCount + 1
            /\ IF error.status = 401
                 THEN Exit(1, "unauthorized")
               ELSE IF BudgetExhausted(consecutiveErrorCount')
                 THEN Exit(1, "poll errors")
               ELSE /\ pc' = "errwait"
                    /\ UNCHANGED <<exitCode, exitReason>>
  /\ UNCHANGED <<lastCommandReceivedTime, pendingAckCommands, commandsSentToProcess,
                 ackOutcome, ackStart>>
  /\ UNCHANGED <<execVars, histVars, retryVars, cfgVars, handlerVars>>

\* index.ts:220: the 5 s wait after a poll error
ErrorWait ==
  /\ pc = "errwait"
  /\ now' = now + ErrorDelaySeconds
  /\ pc' = "sleep"
  /\ UNCHANGED <<lastCommandReceivedTime, consecutiveErrorCount, pendingAckCommands,
                 commandsSentToProcess, ackOutcome, ackStart, exitCode, exitReason>>
  /\ UNCHANGED <<execVars, histVars, retryVars, cfgVars, handlerVars>>

\* index.ts:224: the inter-poll delay that ends the cycle
Sleep ==
  /\ pc = "sleep"
  /\ now' = now + PollingInterval
  /\ pc' = "top"
  /\ repolled' = {}
  /\ UNCHANGED <<lastCommandReceivedTime, consecutiveErrorCount, pendingAckCommands,
                 commandsSentToProcess, ackOutcome, ackStart, exitCode, exitReason>>
  /\ UNCHANGED <<dispatchLog, scheduleLog, startLog, ackedOk>>
  /\ UNCHANGED <<execVars, retryVars, cfgVars, handlerVars>>

\* Mutant of AckSettles: a failed ack counts as a polling error
AckSettles_CountsFailure(id, script) ==
  /\ pc = "ack"
  /\ ackOutcome[id] = "inflight"
  /\ LET call == withRetry("ackCommand", script) IN
       /\ ackOutcome' = [ackOutcome EXCEPT ![id] = IF call.ok THEN "ok" ELSE "fail"]
       /\ ackedOk' = IF call.ok THEN ackedOk \cup {id} ELSE ackedOk
       /\ now' = Max(now, ackStart + ElapsedSeconds(script, call))
       /\ consecutiveErrorCount' =
            IF call.ok THEN consecutiveErrorCount ELSE consecutiveErrorCount + 1
  /\ UNCHANGED <<pc, lastCommandReceivedTime, pendingAckCommands,
                 commandsSentToProcess, ackStart, exitCode, exitReason>>
  /\ UNCHANGED <<dispatchLog, scheduleLog, startLog, repolled>>
  /\ UNCHANGED <<execVars, retryVars, cfgVars, handlerVars>>

\* index.ts:91-101: one ackCommand of the cycle settles (withRetry inside)
AckSettles(id, script) ==
  /\ pc = "ack"
  /\ ackOutcome[id] = "inflight"
  /\ LET call == withRetry("ackCommand", script) IN
       /\ ackOutcome' = [ackOutcome EXCEPT ![id] = IF call.ok THEN "ok" ELSE "fail"]
       /\ ackedOk' = IF call.ok THEN ackedOk \cup {id} ELSE ackedOk
       /\ now' = Max(now, ackStart + ElapsedSeconds(script, call))
  /\ UNCHANGED <<pc, lastCommandReceivedTime, consecutiveErrorCount, pendingAckCommands,
                 commandsSentToProcess, ackStart, exitCode, exitReason>>
  /\ UNCHANGED <<dispatchLog, scheduleLog, startLog, repolled>>
  /\ UNCHANGED <<execVars, retryVars, cfgVars, handlerVars>>

\* handleCommands.ts:77-120: processCommands(commands), up to its await
ProcessCommands(commands) ==
  LET scheduled == ScheduledOf(commands)
      d == Drain(Enqueue(queue, scheduled), running, <<>>, SlotsOf(maxConcurrency))
  IN /\ dispatchLog' = Append(dispatchLog, commands)
     /\ scheduleLog' = scheduleLog \o scheduled
     /\ queue' = d.queue
     /\ running' = d.running
     /\ startLog' = startLog \o d.started
     /\ jobStatus' = [id \in Ids |->
          IF id \in d.running /\ id \notin running THEN "running"
          ELSE IF id \in Range(scheduled) THEN "queued"
          ELSE IF id \in UnscheduledOf(commands) THEN "unscheduled"
          ELSE jobStatus[id]]
     /\ totalErrorCount' = totalErrorCount + Cardinality(UnscheduledOf(commands))
     /\ UNCHANGED maxConcurrency

\* Mutant of AllSettled: the first ack to settle ends the wait
AllSettled_Any(outcome) == \E id \in Ids : outcome[id] \in {"ok", "fail"}

\* index.ts:103, await Promise.allSettled(ackOperationPromises)
AllSettled(outcome) == \A id \in Ids : outcome[id] # "inflight"

\* index.ts:103-183: all acks have settled; pending/sent bookkeeping,
\* terminate detection and dispatch
AckBookkeeping ==
  /\ pc = "ack"
  /\ AllSettled(ackOutcome)
  /\ LET commandsToAttemptAck == pendingAckCommands
         successfullyAckedCommands ==
           SuccessfullyAcked(commandsToAttemptAck, ackOutcome, commandsSentToProcess)
         terminateCommands == TerminateCommands(successfullyAckedCommands)
     IN /\ pendingAckCommands' = StillPending(commandsToAttemptAck, ackOutcome)
        /\ ackStart' = 0
        /\ IF successfullyAckedCommands = <<>>
             THEN /\ pc' = "sleep"
                  /\ ackOutcome' = NoAcks
                  /\ UNCHANGED <<commandsSentToProcess, exitCode, exitReason>>
                  /\ UNCHANGED <<execVars, dispatchLog, scheduleLog, startLog>>
           ELSE IF terminateCommands # <<>>
             THEN /\ commandsSentToProcess' = commandsSentToProcess \cup {Head(terminateCommands)}
                  /\ Exit(0, "terminate")
                  /\ UNCHANGED ackOutcome
                  /\ UNCHANGED <<execVars, dispatchLog, scheduleLog, startLog>>
           ELSE /\ commandsSentToProcess' = MarkSent(commandsSentToProcess, successfullyAckedCommands)
                /\ ProcessCommands(successfullyAckedCommands)
                /\ pc' = "sleep"
                /\ ackOutcome' = NoAcks
                /\ UNCHANGED <<exitCode, exitReason>>
  /\ UNCHANGED <<now, lastCommandReceivedTime, consecutiveErrorCount, ackedOk, repolled>>
  /\ UNCHANGED <<retryVars, cfgVars, handlerVars>>

\* Mutant of Release: the slot of a settled job is not given back
Release_Leaked(r, id) == r

\* handleCommands.ts:112, limiter.schedule: the slot of a job whose processFn
\* settled, resolved or rejected, is free again
Release(r, id) == r \ {id}

\* Mutant of JobSettles: jobs go on after the process has exited
JobSettles_AfterExit(id, resolved) ==
  /\ id \in running
  /\ LET d == Drain(queue, Release(running, id), <<>>, SlotsOf(maxConcurrency)) IN
       /\ queue' = d.queue
       /\ running' = d.running
       /\ startLog' = startLog \o d.started
       /\ jobStatus' = [j \in Ids |->
            IF j = id THEN (IF resolved THEN "resolved" ELSE "rejected")
            ELSE IF j \in d.running /\ j \notin running THEN "running"
            ELSE jobStatus[j]]
  /\ totalErrorCount' = IF resolved THEN totalErrorCount ELSE totalErrorCount + 1
  /\ UNCHANGED <<maxConcurrency, dispatchLog, scheduleLog, ackedOk, repolled>>
  /\ UNCHANGED <<loopVars, retryVars, cfgVars, handlerVars>>

\* handleCommands.ts:112-119: the processFn of a running job settles; its
\* slot is freed and the limiter starts the next queued job
JobSettles(id, resolved) ==
  /\ pc # "exited"
  /\ id \in running
  /\ LET d == Drain(queue, Release(running, id), <<>>, SlotsOf(maxConcurrency)) IN
       /\ queue' = d.queue
       /\ running' = d.running
       /\ startLog' = startLog \o d.started
       /\ jobStatus' = [j \in Ids |->
            IF j = id THEN (IF resolved THEN "resolved" ELSE "rejected")
            ELSE IF j \in d.running /\ j \notin running THEN "running"
            ELSE jobStatus[j]]
  /\ totalErrorCount' = IF resolved THEN totalErrorCount ELSE totalErrorCount + 1
  /\ UNCHANGED <<maxConcurrency, dispatchLog, scheduleLog, ackedOk, repolled>>
  /\ UNCHANGED <<loopVars, retryVars, cfgVars, handlerVars>>

(***************************************************************************)
(* Specifications                                                          *)
(***************************************************************************)
Init == InitLoop /\ RetryIdle /\ CfgIdle /\ HandlerIdle

Next ==
  \/ LoopTop
  \/ \E polledCommands \in PollResponses : PollReturns(polledCommands)
  \/ \E error \in PollFailures : PollThrows(error)
  \/ ErrorWait
  \/ Sleep
  \/ \E id \in Ids, script \in RequestScripts : AckSettles(id, script)
  \/ AckBookkeeping
  \/ \E id \in Ids, resolved \in BOOLEAN : JobSettles(id, resolved)

Spec == Init /\ [][Next]_vars

\* A step of run() itself.  Each of its awaits settles: the requests are
\* bounded by their timeout (requests.ts:61-62) and by the retry bound, the
\* sleeps by their timers.
LoopStep ==
  \/ LoopTop
  \/ \E polledCommands \in PollResponses : PollReturns(polledCommands)
  \/ \E error \in PollFailures : PollThrows(error)
  \/ ErrorWait
  \/ Sleep
  \/ \E id \in Ids, script \in RequestScripts : AckSettles(id, script)
  \/ AckBookkeeping

\* The dispatch loop whose awaits all settle; the jobs may run for ever
SpecLive == Init /\ [][Next]_vars /\ WF_vars(LoopStep)

\* What the first poll of the run can return
FirstResponses == UNION {SeqsOfLen(PolledIds, n) : n \in 0..MaxResponse}

\* index.ts:58, the first pollCommands of the run resolves
FirstPollReturns(polledCommands) ==
  /\ now = 0
  /\ PollReturns(polledCommands)

\* The first cycle of the run, with longer poll responses, up to the second
\* poll
NextCycle ==
  \/ LoopTop
  \/ \E polledCommands \in FirstResponses : FirstPollReturns(polledCommands)
  \/ \E id \in Ids, script \in RequestScripts : AckSettles(id, script)
  \/ AckBookkeeping
  \/ \E id \in Ids, resolved \in BOOLEAN : JobSettles(id, resolved)
  \/ Sleep

SpecCycle == Init /\ [][NextCycle]_vars

InitR == InitRetry /\ LoopIdle /\ ExecIdle /\ CfgIdle /\ HandlerIdle

NextRetry ==
  \/ AttemptResolves /\ UNCHANGED <<loopVars, execVars, histVars, cfgVars, handlerVars>>
  \/ (\E error \in Failures : AttemptRejects(error))
       /\ UNCHANGED <<loopVars, execVars, histVars, cfgVars, handlerVars>>
  \/ BackoffElapsed /\ UNCHANGED <<loopVars, execVars, histVars, cfgVars, handlerVars>>

SpecRetry == InitR /\ [][NextRetry]_vars

InitC == InitCfg /\ LoopIdle /\ ExecIdle /\ RetryIdle /\ HandlerIdle

NextCfg ==
  \/ (\E script \in RequestScripts, response \in ConfigResponses : FetchConfig(script, response))
       /\ UNCHANGED <<loopVars, execVars, histVars, retryVars, handlerVars>>
  \/ Resolve /\ UNCHANGED <<loopVars, execVars, histVars, retryVars, handlerVars>>

SpecCfg == InitC /\ [][NextCfg]_vars

\* The sequences without repeats of at most n elements of S
RECURSIVE InjSeqs(_, _)
InjSeqs(S, n) ==
  IF n = 0 THEN {<<>>}
  ELSE {<<>>} \cup UNION {{<<x>> \o q : q \in InjSeqs(S \ {x}, n - 1)} : x \in S}

\* The commands the loop can hand to processCommands: never a terminate
\* command (index.ts:152-159) and never an id handed over before
\* (index.ts:117-123, 161-165).
Batches ==
  InjSeqs({id \in Ids : ~IsTerminate(id) /\ jobStatus[id] = "none"}, MaxBatch) \ {<<>>}

InitExec ==
  /\ pc = "detached" /\ now = 0 /\ lastCommandReceivedTime = 0 /\ consecutiveErrorCount = 0
  /\ pendingAckCommands = <<>> /\ commandsSentToProcess = {} /\ ackOutcome = NoAcks
  /\ ackStart = 0
  /\ exitCode = -1 /\ exitReason = NONE /\ ackedOk = {} /\ repolled = {}
  /\ maxConcurrency \in 1..MaxLimit
  /\ queue = <<>> /\ running = {}
  /\ jobStatus = [id \in Ids |-> "none"] /\ totalErrorCount = 0
  /\ dispatchLog = <<>> /\ scheduleLog = <<>> /\ startLog = <<>>

\* index.ts:173-181: a call of processCommands, the loop left out
Dispatch(commands) ==
  /\ pc = "detached"
  /\ ProcessCommands(commands)
  /\ UNCHANGED <<loopVars, ackedOk, repolled, retryVars, cfgVars, handlerVars>>

InitE == InitExec /\ RetryIdle /\ CfgIdle /\ HandlerIdle

NextExec ==
  \/ \E commands \in Batches : Dispatch(commands)
  \/ \E id \in Ids, resolved \in BOOLEAN : JobSettles(id, resolved)

SpecExec == InitE /\ [][NextExec]_vars

(***************************************************************************)
(* Properties of the dispatch loop (Spec)                                  *)
(***************************************************************************)
Pending == Range(pendingAckCommands)

\* The batch handed to processCommands by the step, if the step hands one
NewBatch == IF Len(dispatchLog') > Len(dispatchLog) THEN dispatchLog'[Len(dispatchLog')] ELSE <<>>

\* C1: exactly-once dispatch.  No command id is handed to processCommands
\* twice, in one batch or in two, whatever the polls return (an id twice
\* in one response, an id pending acknowledgment, an id dispatched before)
\* and however often acks are repeated.
C1_ExactlyOnceDispatch == IsInjective(Dispatched)

\* A cycle whose poll response held twice an id dispatched earlier, with the
\* ack of a command that an earlier cycle left pending tried again
C1_Witness ==
  /\ {"response", "sent"} \subseteq repolled
  /\ Dispatched # <<>>
  /\ pc = "ack"

\* C2: ack before dispatch.  Every id of a batch handed to processCommands
\* has an ack that resolved in the very cycle of the hand-over, and nothing
\* is ever handed over whose ack never resolved.
C2_AckBeforeDispatch ==
  [][/\ \A id \in Range(NewBatch) : pc = "ack" /\ ackOutcome[id] = "ok"
     /\ Range(Dispatched') \subseteq ackedOk']_vars

\* One command dispatched while another, whose ack failed, waits undispatched
C2_Witness ==
  /\ pc = "sleep"
  /\ Dispatched # <<>>
  /\ \E id \in Pending : id \notin Range(Dispatched) /\ id \notin ackedOk

\* C3 as stated: a command whose ack did not succeed stays in the map, a
\* successful poll attempts the ack of every pending command, and a command
\* leaves the map only on a successful ack and is dispatched in that cycle.
C3_Original ==
  [][/\ \A id \in Pending : ackOutcome[id] # "ok" => id \in Range(pendingAckCommands')
     /\ (pc = "poll" /\ \E r \in PollResponses : PollReturns(r)) =>
           \A id \in Pending : pc' = "ack" /\ ackOutcome'[id] = "inflight"
     /\ \A id \in Pending : id \notin Range(pendingAckCommands') =>
           ackOutcome[id] = "ok" /\ id \in Range(NewBatch)]_vars

\* C3 (amended): as C3_Original, but a command that leaves the map is
\* dispatched in that cycle unless a terminate command was acknowledged in
\* the cycle, in which case the loop exits and dispatches nothing.
C3_PendingUntilAcked ==
  [][/\ \A id \in Pending : ackOutcome[id] # "ok" => id \in Range(pendingAckCommands')
     /\ (pc = "poll" /\ \E r \in PollResponses : PollReturns(r)) =>
           \A id \in Pending : pc' = "ack" /\ ackOutcome'[id] = "inflight"
     /\ \A id \in Pending : id \notin Range(pendingAckCommands') =>
           /\ ackOutcome[id] = "ok"
           /\ \/ id \in Range(NewBatch)
              \/ /\ exitReason' = "terminate"
                 /\ \E t \in Pending : IsTerminate(t) /\ ackOutcome[t] = "ok"]_vars

\* A cycle whose poll returned nothing, in which the ack of a command left
\* pending by an earlier cycle is attempted again and succeeds
C3_Witness ==
  /\ pc = "ack"
  /\ lastCommandReceivedTime < now
  /\ \E id \in Pending : ackOutcome[id] = "ok" /\ ~IsTerminate(id)

\* C4 as stated: when the run has ended, every non-terminate command whose
\* ack succeeded has been handed to processCommands.
C4_Original ==
  pc = "exited" =>
    \A id \in ackedOk : ~IsTerminate(id) => id \in Range(Dispatched)

\* C4 (amended): outside an ack round, every non-terminate command whose ack
\* succeeded has been handed to processCommands, except the commands
\* acknowledged in the cycle in which a terminate command was acknowledged,
\* which ends the run.
C4_NoWorkLost ==
  pc # "ack" =>
    \A id \in ackedOk :
      ~IsTerminate(id) =>
        \/ id \in Range(Dispatched)
        \/ /\ pc = "exited" /\ exitReason = "terminate"
           /\ ackOutcome[id] = "ok"
           /\ \E t \in Ids : IsTerminate(t) /\ ackOutcome[t] = "ok"

\* Two commands acknowledged and handed over in one batch
C4_Witness ==
  /\ pc = "sleep"
  /\ \E i \in 1..Len(dispatchLog) : Len(dispatchLog[i]) >= 2
  /\ \A id \in ackedOk : id \in Range(Dispatched)

(***************************************************************************)
(* Properties of the executor (SpecExec)                                   *)
(***************************************************************************)
\* Scheduled jobs whose processFn has not settled
Unsettled == {id \in Range(scheduleLog) : jobStatus[id] \notin {"resolved", "rejected"}}

\* C5: concurrency bound.  At most maxConcurrency jobs run at once, and when
\* more than maxConcurrency scheduled jobs are unsettled, exactly
\* maxConcurrency of them run and the rest are queued, over all batches.
C5_ConcurrencyBound ==
  /\ Cardinality(running) <= maxConcurrency
  /\ running \cup Range(queue) = Unsettled
  /\ running \cap Range(queue) = {}
  /\ Cardinality(Unsettled) > maxConcurrency =>
       /\ Cardinality(running) = maxConcurrency
       /\ Len(queue) = Cardinality(Unsettled) - maxConcurrency

\* Jobs of two batches, more of them than slots: the limit is reached and
\* two jobs wait
C5_Witness ==
  /\ Len(dispatchLog) >= 2
  /\ Cardinality(running) = maxConcurrency
  /\ Len(queue) >= 2

\* C6: FIFO admission.  Jobs are started in the order of their
\* limiter.schedule calls, and when a running job settles, resolved or
\* rejected, while jobs wait, the longest-waiting one is started at once.
C6_FifoAdmission ==
  [][/\ Len(startLog') <= Len(scheduleLog')
     /\ startLog' = SubSeq(scheduleLog', 1, Len(startLog'))
     /\ \A id \in running :
          (id \notin running' /\ queue # <<>>) =>
             /\ Head(queue) \in running'
             /\ queue' = Tail(queue)]_vars

\* A job threw while two others waited, and the first of them was started
C6_Witness ==
  /\ maxConcurrency = 1
  /\ Len(startLog) = 2
  /\ jobStatus[startLog[1]] = "rejected"
  /\ jobStatus[startLog[2]] = "running"
  /\ queue # <<>>

(***************************************************************************)
(* Properties of the maxConcurrency resolution (SpecCfg)                   *)
(***************************************************************************)
\* The step input is numeric: it is written in digits and nothing else
IsNumeric(s) == s # <<>> /\ \A k \in 1..Len(s) : IsDigit(s[k])

\* The local value, if the step input is a valid one: numeric and above
\* zero.  Any other input (non-numeric or non-positive) is an invalid one.
LocalValue ==
  IF IsNumeric(stepInputMaxConcurrencyStr) /\ ParseDigits(stepInputMaxConcurrencyStr, 0) > 0
    THEN Num(ParseDigits(stepInputMaxConcurrencyStr, 0)) ELSE UNDEFINED

\* The server value, if the fetch delivered one above zero
ServerValue ==
  IF serverConfigMaxConcurrency # UNDEFINED /\ serverConfigMaxConcurrency[1] > 0
    THEN serverConfigMaxConcurrency ELSE UNDEFINED

\* C7: maxConcurrency is the local value if the step input is a valid
\* positive integer; for an absent or invalid (non-numeric or non-positive)
\* step input it is the server value if that is a positive integer, else 5;
\* a fetch that failed or returned nothing leaves the server value absent
\* and the resolution still takes place.
C7_MaxConcurrencyResolution ==
  /\ (cPc # "input" /\ fetchOutcome \in {"threw", "null"}) =>
        serverConfigMaxConcurrency = UNDEFINED
  /\ cPc = "fetched" => ENABLED Resolve
  /\ cPc = "resolved" =>
        cfgMaxConcurrency =
          IF LocalValue # UNDEFINED THEN LocalValue[1]
          ELSE IF ServerValue # UNDEFINED THEN ServerValue[1]
          ELSE DEFAULT_MAX_CONCURRENCY

(***************************************************************************)
(* Properties of withRetry (SpecRetry)                                     *)
(***************************************************************************)
IsFailure(o) == o.kind = "error"

\* C8: retry bound.  One call makes at most 4 attempts; it returns at the
\* first attempt that succeeds; when the 4th attempt fails as well, that
\* last error is rethrown.
C8_RetryBound ==
  /\ Len(rLog) <= maxRetries + 1
  /\ \A i \in 1..Len(rLog) : (~IsFailure(rLog[i])) => (i = Len(rLog) /\ rPc = "returned")
  /\ rPc = "returned" => (rResult = OK /\ rLog[Len(rLog)] = OK)
  /\ (Len(rLog) = maxRetries + 1 /\ IsFailure(rLog[maxRetries + 1])) =>
        (rPc = "thrown" /\ rResult = rLog[maxRetries + 1])

\* Four attempts of ackCommand failed and the last error was rethrown
C8_Witness ==
  /\ rOp = "ackCommand"
  /\ rPc = "thrown"
  /\ Len(rLog) = maxRetries + 1

\* The failures the retry policy names: a status of the 5xx class, a
\* connection reset, a timeout, a DNS retry, or a cancellation
IsTransient(error) ==
  \/ error.status \in 500..599
  \/ error.code \in {"ECONNRESET", "ECONNABORTED", "ETIMEDOUT", "EAI_AGAIN"}
  \/ error.message = "canceled"

\* Was attempt i of the call followed by a backoff and another attempt
WasRetried(i) == i < Len(rLog) \/ (i = Len(rLog) /\ rPc = "wait")

\* C9: retry classification.  While attempts remain, a failed attempt is
\* retried if and only if it failed with a 5xx status, a connection reset,
\* timeout or DNS-retry transport error, or a cancellation; any other
\* failure is rethrown after that one attempt, with no delay.
C9_RetryClassification ==
  \A i \in 1..Len(rLog) :
    (IsFailure(rLog[i]) /\ i <= maxRetries) =>
       /\ WasRetried(i) <=> IsTransient(rLog[i])
       /\ (~IsTransient(rLog[i])) => (rPc = "thrown" /\ Len(rDelays) = i - 1)

\* C10: backoff schedule.  The delay before retry k is 2^(k-1) seconds:
\* 1 s, 2 s, 4 s; there are never more than three delays, one per retry, and
\* none follows the attempt whose error is rethrown.
C10_BackoffSchedule ==
  /\ Len(rDelays) <= maxRetries
  /\ \A k \in 1..Len(rDelays) : rDelays[k] = <<1000, 2000, 4000>>[k]
  /\ rPc = "wait" => Len(rDelays) = Len(rLog)
  /\ rPc \in {"try", "returned", "thrown"} => Len(rDelays) = attempt
  /\ rPc \in {"returned", "thrown"} => Len(rDelays) = Len(rLog) - 1

\* Three retries were made and the fourth failure was rethrown undelayed
C10_Witness ==
  /\ rPc = "thrown"
  /\ Len(rLog) = maxRetries + 1
  /\ rDelays = <<1000, 2000, 4000>>

(***************************************************************************)
(* Properties of the loop's error handling and termination (Spec)          *)
(***************************************************************************)
\* C11: a poll that times out is not an error.  It leaves the consecutive
\* error counter alone, does not end the run, and the loop goes to the
\* inter-poll delay directly; and the poll is one request, never retried.
C11_PollTimeoutExpected ==
  [][\A error \in PollTimeouts :
       (pc = "poll" /\ PollThrows(error)) =>
          /\ consecutiveErrorCount' = consecutiveErrorCount
          /\ exitCode' = -1
          /\ pc' = "sleep"]_vars

\* C12: a 401 is fatal on any call.  A poll or an ack that is answered with
\* 401 ends the run at once with a non-zero exit code.
C12_UnauthorizedIsFatal ==
  [][/\ (pc = "poll" /\ PollThrows(HttpError(401))) =>
          (pc' = "exited" /\ exitCode' > 0)
     /\ \A id \in Ids :
          (pc = "ack" /\ AckSettles(id, <<HttpError(401)>>)) =>
             (pc' = "exited" /\ exitCode' > 0)]_vars

\* The step is a poll that resolved
PollSucceeded == pc = "poll" /\ \E r \in PollResponses : PollReturns(r)

\* The step is a poll that was rejected and taken as an error by the loop
PollFailed ==
  pc = "poll" /\ \E error \in PollFailures :
                   ~MessageIncludesECONNABORTED(error) /\ PollThrows(error)

\* The step is a poll that was rejected, with whatever error
PollRejected == pc = "poll" /\ \E error \in PollFailures : PollThrows(error)

\* C13: consecutive poll-failure budget.  The counter is 0 after every poll
\* that resolved and one more after every poll that was rejected, so it
\* counts the failures since the last resolved poll; the run ends with a
\* non-zero code exactly at the fifth such failure, and while the run goes
\* on the counter is below 5.
C13_Original ==
  [][/\ PollSucceeded => consecutiveErrorCount' = 0
     /\ PollRejected => consecutiveErrorCount' = consecutiveErrorCount + 1
     /\ (pc # "exited" /\ pc' = "exited" /\ exitCode' > 0)
           <=> (PollRejected /\ consecutiveErrorCount' = MAX_CONSECUTIVE_ERRORS)
     /\ pc # "exited" => consecutiveErrorCount < MAX_CONSECUTIVE_ERRORS]_vars

\* C13 (amended): consecutive poll-failure budget.  The counter is 0 after a
\* poll that resolved, one more after a poll that was rejected with an error
\* the loop does not take for a timeout (a rejection whose message contains
\* ECONNABORTED leaves it as it is) and unchanged by every other step; the
\* fifth such failure in a row ends the run with a non-zero code, a non-zero
\* exit happens only at a failed poll that is the fifth or is answered 401,
\* and while the run goes on the counter is below 5.
C13_ConsecutiveErrorBudget ==
  [][/\ PollSucceeded => consecutiveErrorCount' = 0
     /\ PollFailed => consecutiveErrorCount' = consecutiveErrorCount + 1
     /\ ~(PollSucceeded \/ PollFailed) => consecutiveErrorCount' = consecutiveErrorCount
     /\ (PollFailed /\ consecutiveErrorCount' = MAX_CONSECUTIVE_ERRORS) =>
           (pc' = "exited" /\ exitCode' > 0)
     /\ (pc # "exited" /\ pc' = "exited" /\ exitCode' > 0) =>
           /\ PollFailed
           /\ \/ consecutiveErrorCount' = MAX_CONSECUTIVE_ERRORS
              \/ PollThrows(HttpError(401))
     /\ pc # "exited" => consecutiveErrorCount < MAX_CONSECUTIVE_ERRORS
     /\ pc' # "exited" => consecutiveErrorCount' < MAX_CONSECUTIVE_ERRORS]_vars

\* The first five polls of the run failed, none of them unauthorized, and
\* the run ended with code 1 at the fifth
C13_Witness ==
  /\ pc = "exited"
  /\ exitCode = 1
  /\ exitReason = "poll errors"
  /\ consecutiveErrorCount = MAX_CONSECUTIVE_ERRORS
  /\ now = (MAX_CONSECUTIVE_ERRORS - 1) * (PollingInterval + ErrorDelaySeconds)

\* C14: exit codes.  The run ends with 0 when the polling duration has
\* elapsed, when the inactivity window has elapsed or when a terminate
\* command was acknowledged, with a non-zero code when a poll was
\* unauthorized or the poll-error budget is exhausted, and in no other way.
C14_ExitCodes ==
  /\ pc = "exited" <=> exitCode # -1
  /\ pc = "exited" =>
       \/ /\ exitCode = 0
          /\ exitReason = "duration"
          /\ now >= PollingDuration
       \/ /\ exitCode = 0
          /\ exitReason = "inactivity"
          /\ now < PollingDuration
          /\ now - lastCommandReceivedTime > inactivityTimeoutSeconds
       \/ /\ exitCode = 0
          /\ exitReason = "terminate"
          /\ \E t \in commandsSentToProcess : IsTerminate(t) /\ ackOutcome[t] = "ok"
       \/ /\ exitCode = 1
          /\ exitReason = "unauthorized"
          /\ consecutiveErrorCount >= 1
       \/ /\ exitCode = 1
          /\ exitReason = "poll errors"
          /\ consecutiveErrorCount = MAX_CONSECUTIVE_ERRORS

\* A run that dispatched a command and later ended on an unauthorized poll
C14_Witness ==
  /\ pc = "exited"
  /\ exitCode = 1
  /\ exitReason = "unauthorized"
  /\ Dispatched # <<>>

\* A terminate command whose ack has succeeded in the cycle under way
TerminateAcked == \E t \in Pending : IsTerminate(t) /\ ackOutcome[t] = "ok"

\* The step ends the ack round of a cycle
AckRoundEnds == pc = "ack" /\ pc' # "ack"

\* C15: terminate requires acknowledgment.  The run ends on terminate only
\* at the end of an ack round in which the ack of a terminate command
\* succeeded, and such a round always ends the run, so no poll follows; an
\* ack round in which no terminate ack succeeded, a terminate command
\* pending or not, hands every acknowledged command to processCommands and
\* goes on to the next poll.
C15_TerminateRequiresAck ==
  [][/\ (pc # "exited" /\ pc' = "exited" /\ exitReason' = "terminate") =>
           (AckRoundEnds /\ TerminateAcked)
     /\ (AckRoundEnds /\ TerminateAcked) =>
           (pc' = "exited" /\ exitCode' = 0 /\ exitReason' = "terminate")
     /\ (AckRoundEnds /\ ~TerminateAcked) =>
           /\ pc' = "sleep"
           /\ \A id \in Pending : ackOutcome[id] = "ok" => id \in Range(NewBatch)
           /\ \A t \in Pending : IsTerminate(t) => t \in Range(pendingAckCommands')
     /\ (\E t \in ackedOk' : IsTerminate(t)) => pc' \in {"ack", "exited"}]_vars

\* An ack round in which the ack of a pending terminate command failed and
\* the ack of another command succeeded
C15_Witness ==
  /\ pc = "ack"
  /\ \E t \in Pending : IsTerminate(t) /\ ackOutcome[t] = "fail"
  /\ \E id \in Pending : ~IsTerminate(id) /\ ackOutcome[id] = "ok"
  /\ \A id \in Pending : ackOutcome[id] # "inflight"

\* The step is a poll that returned at least one command
PollReturnedCommands ==
  pc = "poll" /\ \E r \in PollResponses : r # <<>> /\ PollReturns(r)

\* C16: inactivity termination.  lastCommandReceivedTime is the time of the
\* last poll that returned at least one command, new or not, and no other
\* step changes it; the loop-top check ends the run with code 0 as soon as
\* more than the window has passed since then, and no poll is issued after
\* the window has passed.
C16_InactivityTermination ==
  [][/\ PollReturnedCommands => lastCommandReceivedTime' = now
     /\ ~PollReturnedCommands => lastCommandReceivedTime' = lastCommandReceivedTime
     /\ (pc = "top" /\ pc' # "top" /\ now < PollingDuration) =>
           IF now - lastCommandReceivedTime > inactivityTimeoutSeconds
             THEN pc' = "exited" /\ exitCode' = 0 /\ exitReason' = "inactivity"
             ELSE pc' = "poll"
     /\ pc' = "poll" => now' - lastCommandReceivedTime' <= inactivityTimeoutSeconds]_vars

\* The run ended on inactivity while a command received at the start was
\* still running
C16_Witness ==
  /\ pc = "exited"
  /\ exitReason = "inactivity"
  /\ lastCommandReceivedTime = 0
  /\ running # {}

\* C17: the run always terminates.  No poll is issued once the polling
\* duration has elapsed since the start, and whatever the polls and the
\* acks do, the process exits.
C17_RunTerminates ==
  /\ [](pc = "poll" => now < PollingDuration)
  /\ <>(pc = "exited")

\* The run ended on the polling duration with a command still waiting for
\* an ack that failed in every cycle
C17_Witness ==
  /\ pc = "exited"
  /\ exitReason = "duration"
  /\ now >= PollingDuration
  /\ pendingAckCommands # <<>>
  /\ ackedOk = {}

\* Jobs handed to the limiter whose processFn has not settled
JobsInFlight == {id \in Ids : jobStatus[id] \in {"queued", "running"}}

\* C18: the cycle is sequential, the execution is fire-and-forget.  The ack
\* round ends only when every ack started in it has settled, and with the
\* pending map and the sent set brought up to date; no ack is under way
\* when a poll is issued; and the loop never waits for a job: the batch it
\* hands over is still in the limiter when it goes on to the delay, and
\* its delay, its loop-top check and its poll can be taken whatever jobs
\* are in flight.
C18_SequentialCycleFireAndForget ==
  [][/\ AckRoundEnds =>
          /\ \A id \in Pending : ackOutcome[id] \in {"ok", "fail"}
          /\ Range(pendingAckCommands') = {id \in Pending : ackOutcome[id] = "fail"}
          /\ pc' = "sleep" =>
                commandsSentToProcess' =
                   commandsSentToProcess \cup {id \in Pending : ackOutcome[id] = "ok"}
     /\ pc' = "poll" => \A id \in Ids : ackOutcome'[id] = "none"
     /\ Range(ScheduledOf(NewBatch)) \subseteq JobsInFlight'
     /\ (Range(NewBatch) # {}) => pc' = "sleep"
     /\ pc = "sleep" => ENABLED Sleep
     /\ pc = "top" => ENABLED LoopTop
     /\ pc = "poll" => ENABLED PollReturns(<<>>)]_vars

\* A poll is issued in a later cycle while a dispatched job is running
C18_Witness ==
  /\ pc = "poll"
  /\ now > 0
  /\ running # {}

(***************************************************************************)
(* Properties of one cycle (SpecCycle)                                     *)
(***************************************************************************)
\* C19: ack ordering.  Within one poll response the acks take effect in the
\* order the commands were received: the ack of a command has not succeeded
\* while the ack of a command received before it is still under way.
C19_AckOrder ==
  \A i, j \in 1..Len(pendingAckCommands) :
    (i < j /\ ackOutcome[pendingAckCommands[j]] = "ok") =>
       ackOutcome[pendingAckCommands[i]] \in {"ok", "fail"}

(***************************************************************************)
(* Properties of the executor: error isolation (SpecExec)                  *)
(***************************************************************************)
\* The step in which the processFn of job id settles
Settles(id) == jobStatus[id] = "running" /\ jobStatus'[id] \in {"resolved", "rejected"}

\* C20: error isolation.  When the processFn of a command settles, thrown
\* error or not, its slot is free again and goes to the longest-waiting job
\* if one waits; every other job keeps its state or is started; nothing
\* scheduled is dropped; the loop's state is untouched; a thrown error is
\* counted once; and whatever has failed, a job that waits always has a job
\* running before it, and further batches are accepted.
C20_ErrorIsolation ==
  [][/\ \A id \in Ids :
          Settles(id) =>
             /\ id \notin running'
             /\ queue # <<>> => (Head(queue) \in running' /\ queue' = Tail(queue))
             /\ queue = <<>> => running' = running \ {id}
             /\ \A j \in Ids \ {id} :
                   \/ jobStatus'[j] = jobStatus[j]
                   \/ jobStatus[j] = "queued" /\ jobStatus'[j] = "running"
             /\ scheduleLog' = scheduleLog
             /\ dispatchLog' = dispatchLog
             /\ UNCHANGED loopVars
             /\ totalErrorCount' =
                  totalErrorCount + (IF jobStatus'[id] = "rejected" THEN 1 ELSE 0)
     /\ queue' # <<>> => Cardinality(running') = maxConcurrency
     /\ (\E id \in Ids : jobStatus[id] = "none" /\ ~IsTerminate(id)) =>
           ENABLED (\E commands \in Batches : Dispatch(commands))]_vars

\* A job threw; after it a sibling of its batch ran to the end and a job of
\* a later batch is running
C20_Witness ==
  /\ Len(dispatchLog) >= 2
  /\ Len(dispatchLog[1]) >= 2
  /\ jobStatus[dispatchLog[1][1]] = "rejected"
  /\ jobStatus[dispatchLog[1][2]] = "resolved"
  /\ \E id \in Range(dispatchLog[2]) : jobStatus[id] = "running"

(***************************************************************************)
(* src/handleCommands.ts: the command handlers                             *)
(*                                                                         *)
(* A text is a sequence of its parts, so that a template literal is a      *)
(* concatenation; the empty string is <<>>.  An optional text is UNDEFINED *)
(* or Str(text).  An exit code is ExitNumber(n) or, when Node reports the  *)
(* code of an error by name, ExitName(name).                               *)
(***************************************************************************)
EMPTY == <<>>

Str(text) == <<text>>

\* !value is false: the value is neither undefined nor the empty string
Truthy(value) == value # UNDEFINED /\ value # Str(EMPTY)

ExitNumber(n) == [number |-> n]

ExitName(name) == [name |-> name]

NULL == [null |-> TRUE]

\* errors.ts:1-10, the message of an ActionError
ActionError(message) == <<"ActionError: ">> \o message

\* types.ts:13-22
FileAction ==
  {"write", "read", "lint", "test", "lint_read", "write_lint_read", "coverage", "delete"}

FileContentsInputs == {UNDEFINED, Str(EMPTY), Str(<<"new">>)}

TestFilePathsInputs == {UNDEFINED, Str(<<"tests/test_x.py">>)}

ScriptInputs == {UNDEFINED, Str(EMPTY), Str(<<"make check">>)}

\* The file commands: the handlers of the other actions read neither
\* fileContents nor testFilePaths, which are left undefined for them
FileCommands ==
  {c \in [type : {"file"}, action : FileAction \cup {"other"},
          fileContents : FileContentsInputs, testFilePaths : TestFilePathsInputs,
          script : {UNDEFINED}] :
     /\ c.action \notin {"write", "write_lint_read"} => c.fileContents = UNDEFINED
     /\ c.action # "coverage" => c.testFilePaths = UNDEFINED}

\* The runner commands the loop dispatches (a terminate command ends the
\* loop before the dispatch, index.ts:152-159)
RunnerCommands ==
  [type : {"runner"}, action : {"script"}, fileContents : {UNDEFINED},
   testFilePaths : {UNDEFINED}, script : ScriptInputs]

\* A command whose type is neither file nor runner
OtherCommands ==
  [type : {"other"}, action : {"other"}, fileContents : {UNDEFINED},
   testFilePaths : {UNDEFINED}, script : {UNDEFINED}]

Commands == FileCommands \cup RunnerCommands \cup OtherCommands

\* ScriptData with the three scripts configured
AllScripts ==
  [test |-> Str(<<"pytest {{file}}">>), lint |-> Str(<<"black {{file}}">>),
   coverage |-> Str(<<"coverage run {{testFilePaths}}">>)]

\* ScriptData: the scripts are configured or not.  Each handler reads its own
\* script only.
Scripts == {NoScripts, AllScripts}

\* handleCommands.ts:308
LINT_SCRIPT_MISSING_MESSAGE == <<"Lint script missing or invalid, skipping lint action.">>

Minute == 60 * 1000

\* handleCommands.ts:567
maxBufferSize == 10 * 1024 * 1024

\* Mutant of timeoutDuration: every script gets the default timeout
timeoutDuration_Default(commandName) == 5 * Minute

\* handleCommands.ts:559-565
timeoutDuration(commandName) ==
  IF commandName = "Lint" THEN 2 * Minute
  ELSE IF commandName = "Coverage" THEN 10 * Minute
  ELSE 5 * Minute

\* A child process, by what it would do if left alone: how long it runs (ms),
\* the code it exits with, what it writes to stderr and how many bytes it
\* writes to stdout.  A child that writes beyond the cap is reported as
\* ended for it whatever else it would have done, so one duration and one
\* code are kept for it.
Children ==
  {c \in [duration : {1 * Minute, 3 * Minute, 6 * Minute, 11 * Minute},
          code : {0, 2},
          stderr : {EMPTY, <<"warning">>, LINT_SCRIPT_MISSING_MESSAGE},
          bytes : {0, maxBufferSize + 1}] :
     c.bytes > maxBufferSize => (c.duration = 1 * Minute /\ c.code = 0)}

CommandFailed == <<"Command failed: ">>

\* child_process.exec(script, {cwd, timeout, maxBuffer}, callback) of
\* handleCommands.ts:569-572: the arguments of the one call of the callback.
\* Output beyond maxBuffer ends the child with a RangeError whose code is a
\* name; a child still running at the timeout is killed with SIGTERM and
\* reported with code null; otherwise the error is null on exit code 0 and
\* carries the exit code if not.  The field file holds how far a child that
\* rewrites a file can have got when the callback comes: a child that ran to
\* its end has left the file alone or has rewritten it, while the kill at
\* the timeout or for output beyond maxBuffer can also come between the
\* emptying of the file and the writing of its new contents.
Exec(child, timeout, maxBuffer) ==
  IF child.bytes > maxBuffer
  THEN [error |-> Str([code |-> ExitName("ERR_CHILD_PROCESS_STDIO_MAXBUFFER"),
                       killed |-> FALSE, signal |-> "undefined",
                       message |-> <<"stdout maxBuffer length exceeded">>]),
        stdout |-> <<"truncated">>, stderr |-> child.stderr,
        file |-> {"rewritten", "emptied", "untouched"}]
  ELSE IF child.duration > timeout
  THEN [error |-> Str([code |-> NULL, killed |-> TRUE, signal |-> "SIGTERM",
                       message |-> CommandFailed]),
        stdout |-> EMPTY, stderr |-> child.stderr,
        file |-> {"rewritten", "emptied", "untouched"}]
  ELSE IF child.code # 0
  THEN [error |-> Str([code |-> ExitNumber(child.code), killed |-> FALSE, signal |-> "null",
                       message |-> CommandFailed]),
        stdout |-> EMPTY, stderr |-> child.stderr, file |-> {"untouched", "rewritten"}]
  ELSE [error |-> UNDEFINED, stdout |-> EMPTY, stderr |-> child.stderr,
        file |-> {"untouched", "rewritten"}]

\* Mutant of ExitCodeOf: an error without a code is reported as exit code 0
ExitCodeOf_NoDefault(error) ==
  IF error # UNDEFINED
  THEN (IF error[1].code = NULL THEN ExitNumber(0) ELSE error[1].code)
  ELSE ExitNumber(0)

\* handleCommands.ts:573, error ? (error.code ?? 1) : 0
ExitCodeOf(error) ==
  IF error # UNDEFINED
  THEN (IF error[1].code = NULL THEN ExitNumber(1) ELSE error[1].code)
  ELSE ExitNumber(0)

TimedOutOrKilled(signal) == <<"Command timed out or killed (signal: ", signal, "): ">>

\* handleCommands.ts:579-593, the error of the result
ErrorMessageOf(error) ==
  IF error = UNDEFINED THEN UNDEFINED
  ELSE IF error[1].signal = "SIGTERM" \/ error[1].killed
       THEN Str(TimedOutOrKilled(error[1].signal) \o error[1].message)
       ELSE Str(error[1].message)

\* handleCommands.ts:545-634, what the promise of executeScript resolves with
executeScript(child, commandName, commandType) ==
  LET cb == Exec(child, timeoutDuration(commandName), maxBufferSize) IN
    [stdout |-> cb.stdout, stderr |-> cb.stderr, exitCode |-> ExitCodeOf(cb.error),
     error |-> ErrorMessageOf(cb.error), fileContents |-> UNDEFINED, type |-> commandType]

Zero == ExitNumber(0)

\* handleCommands.ts:164-172
DefaultFileResult ==
  [stdout |-> EMPTY, stderr |-> EMPTY, exitCode |-> ExitNumber(1),
   error |-> Str(<<"Unknown error occurred">>), fileContents |-> Str(EMPTY), type |-> "file"]

\* handleCommands.ts:42-49
DefaultRunnerResult ==
  [stdout |-> EMPTY, stderr |-> EMPTY, exitCode |-> ExitNumber(1),
   error |-> Str(<<"Unknown error occurred">>), fileContents |-> UNDEFINED, type |-> "runner"]

\* Mutant of Caught: the catch keeps the fileContents of the default result
Caught_KeepsFileContents(message) ==
  [stdout |-> EMPTY, stderr |-> message, exitCode |-> ExitNumber(1),
   error |-> Str(message), fileContents |-> Str(EMPTY), type |-> "file"]

\* handleCommands.ts:201-211, the result built by the catch of processFileCommand
Caught(message) ==
  [stdout |-> EMPTY, stderr |-> message, exitCode |-> ExitNumber(1),
   error |-> Str(message), fileContents |-> UNDEFINED, type |-> "file"]

\* handleCommands.ts:213-225, the CommandResult of a file command
FileCommandResult(r) ==
  [stdout |-> r.stdout, stderr |-> r.stderr, exitCode |-> r.exitCode,
   error |-> IF r.exitCode # Zero THEN r.error ELSE UNDEFINED,
   fileContents |-> r.fileContents, type |-> "file"]

\* Result of a handler that succeeded without output
Succeeded(stdout, stderr, fileContents) ==
  [stdout |-> stdout, stderr |-> stderr, exitCode |-> Zero, error |-> UNDEFINED,
   fileContents |-> fileContents, type |-> "file"]

InitCmd ==
  /\ hPc = <<>>
  /\ command = <<>>
  /\ result = <<>>
  /\ scripts \in Scripts
  /\ disk \in {UNDEFINED, Str(<<"old">>)}
  /\ parentDirExists \in {exists \in BOOLEAN : disk # UNDEFINED => exists}
  /\ commandResults = <<>>
  /\ maxConcurrency \in 1..MaxLimit
  /\ LimiterIdle

\* The commands given to processCommands so far, by their place in that order
Jobs == 1..Len(command)

\* The promise processCommands holds for the command has settled
Settled(i) == hPc[i] \in {"resolved", "rejected", "unscheduled"}

\* The sendCommandResult calls made for command i, in order
ResultsFor(i) == SelectSeq(commandResults, LAMBDA sent : sent.id = i)

\* The position of command i moves on
Goto(i, position) == hPc' = [hPc EXCEPT ![i] = position]

\* The local variable result of command i is assigned
Returns(i, r) == result' = [result EXCEPT ![i] = r]

\* handleCommands.ts:112-119, the catch on limiter.schedule: processFn rejected
Rejected(i) ==
  /\ Goto(i, "rejected")
  /\ totalErrorCount' = totalErrorCount + 1

\* handleCommands.ts:95-98, the types processCommands has a processFn for
HasProcessFn(type) == type \in {"file", "runner"}

\* handleCommands.ts:92-119, the map of processCommands over one command: a
\* file or runner command is scheduled on the limiter, any other is counted
\* and not scheduled.  The map does not wait for the commands given before.
Submit(c) ==
  /\ Len(command) < MaxCommands
  /\ command' = Append(command, c)
  /\ result' = Append(result, NoResult)
  /\ IF HasProcessFn(c.type)
     THEN hPc' = Append(hPc, "scheduled") /\ UNCHANGED totalErrorCount
     ELSE hPc' = Append(hPc, "unscheduled") /\ totalErrorCount' = totalErrorCount + 1
  /\ UNCHANGED <<scripts, disk, parentDirExists, commandResults>>

\* limiter.ts:63-66 and handleCommands.ts:112: the limiter starts the
\* processFn of a scheduled command, first scheduled first, while fewer than
\* maxConcurrent of the processFns scheduled before it are unsettled
Admitted(i) ==
  Cardinality({j \in 1..(i - 1) : HasProcessFn(command[j].type) /\ ~Settled(j)})
    < SlotsOf(maxConcurrency)

\* Where the switch of processFileCommand goes (handleCommands.ts:175-200)
FirstStepOf(action) ==
  CASE action \in {"write", "write_lint_read"} -> "write"
    [] action \in {"lint", "lint_read"} -> "lint"
    [] action = "read" -> "read"
    [] action = "test" -> "test"
    [] action = "coverage" -> "coverage"
    [] action = "delete" -> "delete"
    [] OTHER -> "send"

\* Mutant of Mkdir: the directory is made only if it is there already
Mkdir_NotRecursive(exists) == exists

\* handleCommands.ts:162, fs.mkdir(path.dirname(fullFilePath), {recursive:
\* true}) when it succeeds: the directory exists afterwards, whether or not
\* it existed before
Mkdir(exists) == TRUE

\* handleCommands.ts:141-174, processFileCommand up to the switch: setupPaths
\* and fs.mkdir are outside the try, an error of mkdir rejects the promise
StartFile(i, mkdirFails) ==
  /\ hPc[i] = "scheduled"
  /\ command[i].type = "file"
  /\ Admitted(i)
  /\ IF mkdirFails
     THEN Rejected(i) /\ UNCHANGED <<result, parentDirExists>>
     ELSE /\ parentDirExists' = Mkdir(parentDirExists)
          /\ Returns(i, DefaultFileResult)
          /\ Goto(i, FirstStepOf(command[i].action))
          /\ UNCHANGED totalErrorCount
  /\ UNCHANGED <<command, scripts, disk, commandResults>>

\* handleCommands.ts:201-211, an exception of a handler inside the try
Throws(i, message) ==
  /\ Returns(i, Caught(message))
  /\ Goto(i, "send")

FilePath == "tests/test_x.py"

\* What fs.writeFile can answer: done, or an error code whatever is there
WriteOutcomes == {"ok", "EACCES"}

\* The message of the error fs.writeFile and fs.readFile reject with
FsErrorMessage(code) ==
  IF code = "ENOENT"
  THEN <<"ENOENT: no such file or directory, open '", FilePath, "'">>
  ELSE <<"EACCES: permission denied, open '", FilePath, "'">>

\* handleCommands.ts:270-279 handleWriteAction up to the await of
\* fs.writeFile: the file is opened for writing, which creates it or empties
\* it, and the contents are written in a later turn of the event loop.  An
\* error of fs.writeFile is thrown to the catch of processFileCommand.
HandleWrite(i, outcome) ==
  /\ hPc[i] = "write"
  /\ IF ~Truthy(command[i].fileContents)
     THEN /\ Throws(i, ActionError(<<"Failed to write to file (", FilePath,
                                     "). File contents are required for write action.">>))
          /\ UNCHANGED disk
     ELSE IF outcome = "ok"
     THEN /\ disk' = Str(EMPTY)
          /\ Goto(i, "writing")
          /\ UNCHANGED result
     ELSE /\ Throws(i, FsErrorMessage(outcome))
          /\ UNCHANGED disk
  /\ UNCHANGED <<command, scripts, parentDirExists, commandResults, totalErrorCount>>

\* The contents of a file are kept in parts of three characters.  What a
\* file holds after fs.writeFile has written the contents from its start:
\* what another writer has put beyond their length since the file was
\* opened stays.
Overwritten(held, contents) == contents \o SubSeq(held, Len(contents) + 1, Len(held))

\* handleCommands.ts:279-285, fs.writeFile resolves, and 381-396 for
\* write_lint_read: the lint follows a write that returned exit code 0.  The
\* contents go to the file that was opened; if it was unlinked meanwhile the
\* path stays as the unlink left it.
WriteFileSettles(i) ==
  /\ hPc[i] \in {"writing", "writing_unlinked"}
  /\ disk' = IF hPc[i] = "writing"
             THEN Str(Overwritten(disk[1], command[i].fileContents[1]))
             ELSE disk
  /\ Returns(i, Succeeded(EMPTY, EMPTY, UNDEFINED))
  /\ Goto(i, IF command[i].action = "write" THEN "send" ELSE "lint")
  /\ UNCHANGED <<command, scripts, parentDirExists, commandResults, totalErrorCount>>

\* How far the linter of a command at this position has got with the file
StageOf(position) ==
  CASE position = "linting_emptied" -> "emptied"
    [] position = "linting_rewritten" -> "rewritten"
    [] OTHER -> "untouched"

\* Mutant of LintWasSkipped: a skipped lint is not told from one that ran
LintWasSkipped_Never(lintResult) == FALSE

\* handleCommands.ts:365, how handleLintReadAction tells that lint was skipped
LintWasSkipped(lintResult) == lintResult.stderr = LINT_SCRIPT_MISSING_MESSAGE

\* handleCommands.ts:357-370: lint_read returns the outcome of the lint step
\* without reading
ShortCircuits(lintResult) == lintResult.exitCode # Zero \/ LintWasSkipped(lintResult)

\* handleCommands.ts:365-370 and 381-396: what lint_read and
\* write_lint_read do with the result of the lint step
AfterLintStep(i, lintResult) ==
  IF command[i].action = "lint"
  THEN Returns(i, lintResult) /\ Goto(i, "send")
  ELSE IF ShortCircuits(lintResult)
  THEN Returns(i, [lintResult EXCEPT !.fileContents = Str(EMPTY)]) /\ Goto(i, "send")
  ELSE Returns(i, lintResult) /\ Goto(i, "read")

\* handleCommands.ts:310-349 handleLintAction up to the await of
\* executeScript: without a lint script the lint step is skipped at once,
\* with one the child is started
HandleLint(i) ==
  /\ hPc[i] = "lint"
  /\ IF ~Truthy(scripts.lint)
     THEN AfterLintStep(i, Succeeded(EMPTY, LINT_SCRIPT_MISSING_MESSAGE, UNDEFINED))
     ELSE Goto(i, "linting") /\ UNCHANGED result
  /\ UNCHANGED <<command, scripts, parentDirExists, disk, commandResults, totalErrorCount>>

\* The running linter opens the file of the path to rewrite it, which
\* empties it, and creates it if it is not there
LinterEmpties(i) ==
  /\ hPc[i] = "linting"
  /\ disk' = Str(EMPTY)
  /\ Goto(i, "linting_emptied")
  /\ UNCHANGED <<command, scripts, parentDirExists, result, commandResults, totalErrorCount>>

\* The running linter writes the fixed contents to the path, in place of
\* what is there
LinterWrites(i) ==
  /\ hPc[i] = "linting_emptied"
  /\ disk' = Str(<<"lin", "ted">>)
  /\ Goto(i, "linting_rewritten")
  /\ UNCHANGED <<command, scripts, parentDirExists, result, commandResults, totalErrorCount>>

\* handleCommands.ts:349 and 569-612: exec calls back for the linter, which
\* ended or was killed, and handleLintAction returns what executeScript
\* resolved with; 352-370 for lint_read
LintReturns(i, child) ==
  /\ hPc[i] \in {"linting", "linting_emptied", "linting_rewritten"}
  /\ StageOf(hPc[i]) \in Exec(child, timeoutDuration("Lint"), maxBufferSize).file
  /\ AfterLintStep(i, executeScript(child, "Lint", "file"))
  /\ UNCHANGED <<command, scripts, parentDirExists, disk, commandResults, totalErrorCount>>

\* What fs.readFile can answer: the contents, or an error code.  ENOENT
\* exactly when the file is absent; EACCES whatever is there.
ReadOutcomes(contents) ==
  (IF contents = UNDEFINED THEN {"ENOENT"} ELSE {"ok"}) \cup {"EACCES"}

\* handleCommands.ts:288-306 handleReadAction, and 372-378 for lint_read:
\* the contents read are returned under the lint step's result
HandleRead(i, outcome) ==
  /\ hPc[i] = "read"
  /\ outcome \in ReadOutcomes(disk)
  /\ IF outcome # "ok"
     THEN Throws(i, FsErrorMessage(outcome))
     ELSE /\ Returns(i, IF command[i].action = "read"
                        THEN Succeeded(EMPTY, EMPTY, disk)
                        ELSE [result[i] EXCEPT !.fileContents = disk])
          /\ Goto(i, "send")
  /\ UNCHANGED <<command, scripts, parentDirExists, disk, commandResults, totalErrorCount>>

\* handleCommands.ts:398-461 handleTestAction
HandleTest(i, child) ==
  /\ hPc[i] = "test"
  /\ IF ~Truthy(scripts.test)
     THEN Throws(i, ActionError(<<"Test script is missing or invalid.">>))
     ELSE Returns(i, executeScript(child, "Test", "file")) /\ Goto(i, "send")
  /\ UNCHANGED <<command, scripts, parentDirExists, disk, commandResults, totalErrorCount>>

\* handleCommands.ts:463-504 handleCoverageAction
HandleCoverage(i, child) ==
  /\ hPc[i] = "coverage"
  /\ IF ~Truthy(scripts.coverage)
     THEN Throws(i, ActionError(<<"Coverage script is missing or invalid.">>))
     ELSE IF command[i].testFilePaths = UNDEFINED
     THEN Throws(i, ActionError(<<"Test file paths are required for coverage action">>))
     ELSE Returns(i, executeScript(child, "Coverage", "file")) /\ Goto(i, "send")
  /\ UNCHANGED <<command, scripts, parentDirExists, disk, commandResults, totalErrorCount>>

\* What fs.unlink can answer: done, or an error code.  ENOENT exactly when
\* the file is absent; EACCES and EISDIR whatever is there.
UnlinkOutcomes(contents) ==
  (IF contents = UNDEFINED THEN {"ENOENT"} ELSE {"ok"}) \cup {"EACCES", "EISDIR"}

\* Mutant of AlreadyDeleted: a missing file is an error like any other
AlreadyDeleted_Never(code) == FALSE

\* handleCommands.ts:523
AlreadyDeleted(code) == code = "ENOENT"

\* handleCommands.ts:506-543 handleDeleteAction.  A file that fs.writeFile
\* holds open when it is unlinked is no longer the file of the path.
HandleDelete(i, outcome) ==
  /\ hPc[i] = "delete"
  /\ outcome \in UnlinkOutcomes(disk)
  /\ IF outcome = "ok"
     THEN /\ disk' = UNDEFINED
          /\ Returns(i, Succeeded(<<"File deleted: ", FilePath>>, EMPTY, UNDEFINED))
          /\ hPc' = [j \in Jobs |-> IF j = i THEN "send"
                                    ELSE IF hPc[j] = "writing" THEN "writing_unlinked"
                                    ELSE hPc[j]]
     ELSE IF AlreadyDeleted(outcome)
     THEN /\ UNCHANGED disk
          /\ Returns(i, Succeeded(<<"File does not exist (already deleted): ", FilePath>>,
                                  EMPTY, UNDEFINED))
          /\ Goto(i, "send")
     ELSE /\ UNCHANGED disk
          /\ Throws(i, ActionError(<<"Failed to delete file (", FilePath, "): ", outcome>>))
  /\ UNCHANGED <<command, scripts, parentDirExists, commandResults, totalErrorCount>>

\* handleCommands.ts:27-66, processRunnerCommand up to the result: a missing
\* script throws outside any try and rejects the promise
StartRunner(i, child) ==
  /\ hPc[i] = "scheduled"
  /\ command[i].type = "runner"
  /\ Admitted(i)
  /\ IF command[i].action = "script"
     THEN IF ~Truthy(command[i].script)
          THEN Rejected(i) /\ UNCHANGED result
          ELSE /\ Returns(i, executeScript(child, "Script", "runner"))
               /\ Goto(i, "send")
               /\ UNCHANGED totalErrorCount
     ELSE /\ Returns(i, DefaultRunnerResult)
          /\ Goto(i, "send")
          /\ UNCHANGED totalErrorCount
  /\ UNCHANGED <<command, scripts, parentDirExists, disk, commandResults>>

\* handleCommands.ts:68-74 and 213-232: the one sendCommandResult of the
\* command is called and the result posted; the command awaits the answer
SendResult(i) ==
  /\ hPc[i] = "send"
  /\ commandResults' =
       Append(commandResults,
              [id |-> i,
               result |-> IF command[i].type = "file"
                          THEN FileCommandResult(result[i]) ELSE result[i]])
  /\ Goto(i, "sending")
  /\ UNCHANGED <<command, scripts, parentDirExists, disk, result, totalErrorCount>>

\* The await of sendCommandResult settles: the promise of the command
\* resolves if the request succeeded and rejects if it failed after its
\* retries (handleCommands.ts:112-119)
SendSettles(i, delivered) ==
  /\ hPc[i] = "sending"
  /\ IF delivered THEN Goto(i, "resolved") /\ UNCHANGED totalErrorCount ELSE Rejected(i)
  /\ UNCHANGED <<command, scripts, parentDirExists, disk, result, commandResults>>

CmdOther ==
  UNCHANGED <<loopVars, maxConcurrency, queue, running, jobStatus, histVars, retryVars, cfgVars,
              pathVars, tplVars>>

InitH == InitCmd /\ LoopIdle /\ RetryIdle /\ CfgIdle /\ PathIdle /\ TemplateIdle

NextCmd ==
  \/ (\E c \in Commands : Submit(c)) /\ CmdOther
  \/ (\E i \in Jobs, mkdirFails \in BOOLEAN : StartFile(i, mkdirFails)) /\ CmdOther
  \/ (\E i \in Jobs, child \in Children : StartRunner(i, child)) /\ CmdOther
  \/ (\E i \in Jobs, outcome \in WriteOutcomes : HandleWrite(i, outcome)) /\ CmdOther
  \/ (\E i \in Jobs : WriteFileSettles(i)) /\ CmdOther
  \/ (\E i \in Jobs : HandleLint(i)) /\ CmdOther
  \/ (\E i \in Jobs : LinterEmpties(i)) /\ CmdOther
  \/ (\E i \in Jobs : LinterWrites(i)) /\ CmdOther
  \/ (\E i \in Jobs, child \in Children : LintReturns(i, child)) /\ CmdOther
  \/ (\E i \in Jobs, outcome \in {"ok", "ENOENT", "EACCES"} : HandleRead(i, outcome))
       /\ CmdOther
  \/ (\E i \in Jobs, child \in Children : HandleTest(i, child)) /\ CmdOther
  \/ (\E i \in Jobs, child \in Children : HandleCoverage(i, child)) /\ CmdOther
  \/ (\E i \in Jobs, outcome \in {"ok", "ENOENT", "EACCES", "EISDIR"} : HandleDelete(i, outcome))
       /\ CmdOther
  \/ (\E i \in Jobs : SendResult(i)) /\ CmdOther
  \/ (\E i \in Jobs, delivered \in BOOLEAN : SendSettles(i, delivered)) /\ CmdOther

\* The handlers on their own: the commands given to processCommands run
\* together, as many at once as the limiter admits
SpecCmd == InitH /\ [][NextCmd]_vars

(***************************************************************************)
(* Properties of the command handlers (SpecCmd)                            *)
(***************************************************************************)
\* Command i lacks the script or the field its action requires
MissingConfiguration(i) ==
  \/ command[i].type = "file" /\ command[i].action = "test" /\ ~Truthy(scripts.test)
  \/ command[i].type = "file" /\ command[i].action = "coverage"
       /\ (~Truthy(scripts.coverage) \/ command[i].testFilePaths = UNDEFINED)
  \/ command[i].type = "file" /\ command[i].action = "write" /\ ~Truthy(command[i].fileContents)
  \/ command[i].type = "runner" /\ command[i].action = "script" /\ ~Truthy(command[i].script)

\* processFileCommand rejected before its try: the directory of the file
\* could not be made (handleCommands.ts:162)
MkdirFailed(i) == command[i].type = "file" /\ hPc[i] = "rejected" /\ ResultsFor(i) = <<>>

\* C21: when the script or field an action requires is missing (test without
\* a test script, coverage without a coverage script or without
\* testFilePaths, write without fileContents, runner script without a
\* script), one CommandResult with exit code 1 and an error is pushed for
\* the command.
C21_ConfigurationErrorsReported ==
  \A i \in Jobs :
    (Settled(i) /\ MissingConfiguration(i) /\ ~MkdirFailed(i))
      => /\ Len(ResultsFor(i)) = 1
         /\ ResultsFor(i)[1].result.exitCode = ExitNumber(1)
         /\ ResultsFor(i)[1].result.error # UNDEFINED

\* C22: a command whose type is neither file nor runner is not scheduled, is
\* counted in the error total, and a failed CommandResult is pushed for it.
C22_UnknownTypeReported ==
  \A i \in Jobs :
    (Settled(i) /\ ~HasProcessFn(command[i].type))
      => /\ hPc[i] = "unscheduled"
         /\ totalErrorCount >= 1
         /\ Len(ResultsFor(i)) = 1
         /\ ResultsFor(i)[1].result.exitCode # Zero

\* C23: for every command handed to the executor whose execution has ended,
\* with whatever outcome, sendCommandResult was invoked exactly once with the
\* id of the command.
C23_ResultCompleteness ==
  \A i \in Jobs : (Settled(i) /\ HasProcessFn(command[i].type)) => Len(ResultsFor(i)) = 1

Unlinked(outcome) == outcome \in {"ok", "ENOENT"}

\* Command i is a delete that returned exit code 0
Deleted(i) ==
  /\ command[i].action = "delete"
  /\ hPc[i] \in {"send", "sending", "resolved", "rejected"}
  /\ result[i].exitCode = Zero

\* C24: delete ends with exit code 0 and the file absent both when the file
\* was there and when it was not, and with exit code 1 on any other OS error;
\* when delete is applied twice, the second after the first returned, both
\* return exit code 0, the second finds the file absent and leaves it absent.
C24_IdempotentDelete ==
  [][\A i \in Jobs, outcome \in {"ok", "ENOENT", "EACCES", "EISDIR"} :
       HandleDelete(i, outcome) =>
         /\ Unlinked(outcome) => (result'[i].exitCode = Zero /\ disk' = UNDEFINED)
         /\ ~Unlinked(outcome) =>
              (result'[i].exitCode = ExitNumber(1) /\ result'[i].error # UNDEFINED)
         /\ ((\A j \in Jobs : command[j].action = "delete") /\ (\E j \in Jobs : Deleted(j)))
              => outcome # "ok"]_vars

\* Delete applied twice, the second after the result of the first was
\* pushed, both answered with exit code 0
C24_Witness ==
  /\ Len(command) = 2 /\ Deleted(1) /\ Deleted(2)
  /\ hPc = <<"resolved", "resolved">>
  /\ Len(commandResults) = 2
  /\ commandResults[1].id = 1 /\ commandResults[1].result.exitCode = Zero
  /\ commandResults[1].result.stdout = <<"File deleted: ", FilePath>>
  /\ commandResults[2].id = 2 /\ commandResults[2].result.exitCode = Zero
  /\ commandResults[2].result.stdout = <<"File does not exist (already deleted): ", FilePath>>
  /\ disk = UNDEFINED

\* lint_read was asked for by command i and no lint script is configured
LintReadWithoutScript(i) ==
  command[i].action = "lint_read" /\ ~Truthy(scripts.lint) /\ hPc[i] \in {"read", "send"}

\* C25 (amended): lint_read with no lint script configured returns exit code
\* 0 with the skipped sentinel in stderr and does not read the file: the
\* result carries empty fileContents.
C25_LintSkipShortCircuits ==
  \A i \in Jobs :
    LintReadWithoutScript(i)
      => /\ hPc[i] = "send"
         /\ result[i].exitCode = Zero
         /\ result[i].stderr = LINT_SCRIPT_MISSING_MESSAGE
         /\ result[i].fileContents = Str(EMPTY)

C25_Witness ==
  /\ Len(command) = 1
  /\ LintReadWithoutScript(1)
  /\ disk = Str(<<"old">>)
  /\ result[1].stderr = LINT_SCRIPT_MISSING_MESSAGE

\* C25: lint_read with no lint script configured returns exit code 0 with the
\* skipped sentinel in stderr and still reads the file: the result carries
\* the file's contents.
C25_LintSkipStillReads ==
  \A i \in Jobs :
    (LintReadWithoutScript(i) /\ hPc[i] = "send")
      => /\ result[i].exitCode = Zero
         /\ result[i].stderr = LINT_SCRIPT_MISSING_MESSAGE
         /\ result[i].fileContents = disk

\* C26: in lint_read the lint runs first; if its exit code is not 0 or it was
\* skipped, the file is not read and the result is the lint outcome with
\* empty fileContents; otherwise the file is read after the lint and the
\* result carries its contents together with the lint step's exitCode,
\* stdout and stderr.
C26_LintReadSequencing ==
  [][\A i \in {j \in Jobs : command[j].action = "lint_read" /\ hPc'[j] # hPc[j]} :
       /\ (~Truthy(scripts.lint) /\ HandleLint(i)) =>
            /\ hPc'[i] = "send"
            /\ result'[i] = Succeeded(EMPTY, LINT_SCRIPT_MISSING_MESSAGE, Str(EMPTY))
       /\ \A child \in Children :
            LintReturns(i, child) =>
              LET lintResult == executeScript(child, "Lint", "file")
              IN IF lintResult.exitCode # Zero
                 THEN /\ hPc'[i] = "send"
                      /\ result'[i] = [lintResult EXCEPT !.fileContents = Str(EMPTY)]
                 ELSE hPc'[i] = "read" /\ result'[i] = lintResult]_vars

\* The children that write the text to stderr; exec hands the stderr of the
\* child to the callback as it is
ChildrenWriting(stderr) == {c \in Children : c.stderr = stderr}

\* The positions at which a command waits for the child it has started
WithChild == {"linting", "linting_emptied", "linting_rewritten"}

\* A child still running at the bound is killed and reported as timed out;
\* a child that ends within the bound is reported with its own exit code
KilledExactlyAfter(i, child, bound) ==
  IF child.duration > bound
  THEN /\ result'[i].exitCode # Zero
       /\ result'[i].error = Str(TimedOutOrKilled("SIGTERM") \o CommandFailed)
  ELSE /\ result'[i].exitCode = ExitNumber(child.code)
       /\ result'[i].error \in {UNDEFINED, Str(CommandFailed)}

\* C27: a child process is bounded by 2 minutes for lint, 10 minutes for
\* coverage and 5 minutes for test and runner scripts; a child that exceeds
\* its bound is killed, and its result has a non-zero exit code and an error
\* saying that the command timed out.
C27_TimeoutClassification ==
  [][\A i \in {j \in Jobs : hPc[j] \in WithChild \cup {"coverage", "test", "scheduled"}
                                 /\ hPc'[j] # hPc[j]} :
     \A child \in {c \in ChildrenWriting(result'[i].stderr) : c.bytes <= maxBufferSize} :
         /\ LintReturns(i, child) => KilledExactlyAfter(i, child, 2 * Minute)
         /\ (Truthy(scripts.coverage) /\ command[i].testFilePaths # UNDEFINED
               /\ HandleCoverage(i, child))
              => KilledExactlyAfter(i, child, 10 * Minute)
         /\ (Truthy(scripts.test) /\ HandleTest(i, child))
              => KilledExactlyAfter(i, child, 5 * Minute)
         /\ (Truthy(command[i].script) /\ StartRunner(i, child))
              => KilledExactlyAfter(i, child, 5 * Minute)]_vars

\* A coverage run killed at its bound
C27_Witness ==
  /\ Len(command) = 1
  /\ command[1].action = "coverage" /\ hPc[1] = "send"
  /\ result[1].exitCode = ExitNumber(1)
  /\ result[1].error = Str(TimedOutOrKilled("SIGTERM") \o CommandFailed)

\* The step runs the script of command i as the child
RunsScript(i, child) ==
  \/ LintReturns(i, child)
  \/ Truthy(scripts.test) /\ HandleTest(i, child)
  \/ Truthy(scripts.coverage) /\ command[i].testFilePaths # UNDEFINED /\ HandleCoverage(i, child)
  \/ Truthy(command[i].script) /\ StartRunner(i, child)

\* What the child reported to the callback of exec
Reported(child, commandName) == Exec(child, timeoutDuration(commandName), maxBufferSize).error

CommandNameOf(position) ==
  CASE position \in WithChild -> "Lint"
    [] position = "coverage" -> "Coverage"
    [] position = "test" -> "Test"
    [] OTHER -> "Script"

\* C28: whatever the child does (exit 0, non-zero exit, timeout kill, output
\* beyond the 10 MiB cap) executeScript resolves with a result record and the
\* promise of the command is not rejected by it; the exit code is 0 and the
\* error absent exactly when the child reported no error, otherwise the exit
\* code is not 0 and the error is populated.
C28_ProcessFailuresAreData ==
  [][\A i \in {j \in Jobs : hPc[j] \in WithChild \cup {"coverage", "test", "scheduled"}
                                 /\ hPc'[j] # hPc[j]} :
     \A child \in ChildrenWriting(result'[i].stderr) :
       RunsScript(i, child) =>
         /\ hPc'[i] \in {"send", "read"}
         /\ IF Reported(child, CommandNameOf(hPc[i])) = UNDEFINED
            THEN result'[i].exitCode = Zero /\ result'[i].error = UNDEFINED
            ELSE result'[i].exitCode # Zero /\ result'[i].error # UNDEFINED]_vars

\* A child ended for output beyond the cap, reported as a failed result
C28_Witness ==
  /\ Len(command) = 1 /\ hPc[1] = "send"
  /\ result[1].exitCode = ExitName("ERR_CHILD_PROCESS_STDIO_MAXBUFFER")
  /\ result[1].error = Str(<<"stdout maxBuffer length exceeded">>)

(***************************************************************************)
(* src/handleCommands.ts: setupPaths                                       *)
(*                                                                         *)
(* A path is the sequence of its characters, over an alphabet of two       *)
(* letters and the separator.  undefined and the empty string take the     *)
(* same branch at every test of setupPaths; <<>> stands for both.          *)
(***************************************************************************)
PathChars == {"a", "b", "/"}

\* The strings of at most n characters
PathStrings(n) == UNION {[1..k -> PathChars] : k \in 0..n}

\* process.env.GITHUB_WORKSPACE || process.cwd(), handleCommands.ts:236
repoRoot == <<"/", "w">>

\* String.prototype.startsWith
StartsWith(s, prefix) ==
  Len(s) >= Len(prefix) /\ SubSeq(s, 1, Len(prefix)) = prefix

\* String.prototype.substring(start)
Substring(s, start) == SubSeq(s, start + 1, Len(s))

\* path.normalize over this alphabet: runs of separators become one separator
RECURSIVE PathNormalize(_)
PathNormalize(s) ==
  IF Len(s) <= 1 THEN s
  ELSE IF s[1] = "/" /\ s[2] = "/" THEN PathNormalize(Tail(s))
  ELSE <<s[1]>> \o PathNormalize(Tail(s))

\* path.join(a, b) with a not empty: an empty segment is ignored, the
\* others are joined with the separator and the result is normalized
PathJoin(a, b) == PathNormalize(IF b = <<>> THEN a ELSE a \o <<"/">> \o b)

\* handleCommands.ts:263-268
normalizeFilePath(filePath, appDir) ==
  IF appDir # <<>> /\ StartsWith(filePath, appDir \o <<"/">>)
  THEN Substring(filePath, Len(appDir) + 1)
  ELSE filePath

\* handleCommands.ts:235-261
setupPaths(d) ==
  LET baseDir == IF d.appDir # <<>> THEN PathJoin(repoRoot, d.appDir) ELSE repoRoot
      filePath == normalizeFilePath(d.filePath, d.appDir)
      originalFilePath == IF d.originalFilePath # <<>>
                          THEN normalizeFilePath(d.originalFilePath, d.appDir)
                          ELSE <<>>
  IN [baseDir |-> baseDir,
      filePath |-> PathJoin(baseDir, filePath),
      originalFilePath |-> IF originalFilePath # <<>>
                           THEN PathJoin(baseDir, originalFilePath)
                           ELSE <<>>]

\* IFileCommandData, the fields setupPaths reads
PathData ==
  [appDir : PathStrings(MaxAppDirLen),
   filePath : PathStrings(MaxPathLen) \ {<<>>},
   originalFilePath : PathStrings(MaxOriginalLen)]

InitPath ==
  /\ pPc = "input"
  /\ data \in PathData
  /\ paths = <<>>
  /\ testContext = <<>>

\* handleCommands.ts:159, a call of setupPaths
SetupPaths ==
  /\ pPc = "input"
  /\ paths' = setupPaths(data)
  /\ pPc' = "resolved"
  /\ UNCHANGED <<data, testContext>>

\* The segments of a normalized path
RECURSIVE Segments(_, _)
Segments(s, segment) ==
  IF s = <<>> THEN (IF segment = <<>> THEN <<>> ELSE <<segment>>)
  ELSE IF Head(s) = "/"
  THEN (IF segment = <<>> THEN <<>> ELSE <<segment>>) \o Segments(Tail(s), <<>>)
  ELSE Segments(Tail(s), Append(segment, Head(s)))

\* Array.prototype.join("/") on segments
RECURSIVE JoinSegments(_)
JoinSegments(segments) ==
  IF segments = <<>> THEN <<>>
  ELSE IF Len(segments) = 1 THEN segments[1]
  ELSE segments[1] \o <<"/">> \o JoinSegments(Tail(segments))

\* Number of leading segments that two paths share
RECURSIVE CommonPrefix(_, _)
CommonPrefix(a, b) ==
  IF a = <<>> \/ b = <<>> \/ Head(a) # Head(b) THEN 0
  ELSE 1 + CommonPrefix(Tail(a), Tail(b))

\* path.relative(from, to) on absolute paths: one ".." for every segment of
\* from below the common directory, then the segments of to below it
PathRelative(from, to) ==
  LET f == Segments(from, <<>>)
      t == Segments(to, <<>>)
      common == CommonPrefix(f, t)
  IN JoinSegments([i \in 1..(Len(f) - common) |-> <<".", ".">>]
                    \o SubSeq(t, common + 1, Len(t)))

\* handleCommands.ts:421-429, "Ensure paths don't incorrectly include appDir
\* again"
StripAppDir(relativePath, appDir) ==
  IF appDir # <<>> /\ StartsWith(relativePath, appDir \o <<"/">>)
  THEN Substring(relativePath, Len(appDir) + 1)
  ELSE relativePath

\* handleCommands.ts:416-436, the context of the test template; an
\* originalFile that is undefined is the empty sequence
TestContext(d) ==
  LET p == setupPaths(d)
      testFilePath == PathRelative(p.baseDir, p.filePath)
      origFilePath == IF p.originalFilePath # <<>>
                      THEN PathRelative(p.baseDir, p.originalFilePath)
                      ELSE <<>>
  IN [file |-> StripAppDir(testFilePath, d.appDir),
      originalFile |-> StripAppDir(origFilePath, d.appDir)]

\* handleCommands.ts:338-342, the context of the lint template
LintContext(d) ==
  LET p == setupPaths(d) IN [file |-> PathRelative(p.baseDir, p.filePath)]

\* handleCommands.ts:398-436, handleTestAction up to the rendering of the
\* test script: setupPaths is called again on the same data
HandleTestPaths ==
  /\ pPc = "resolved"
  /\ testContext' = TestContext(data)
  /\ pPc' = "templated"
  /\ UNCHANGED <<data, paths>>

InitP == InitPath /\ LoopIdle /\ ExecIdle /\ RetryIdle /\ CfgIdle /\ CmdIdle /\ TemplateIdle

NextPath ==
  \/ SetupPaths /\ UNCHANGED <<loopVars, execVars, histVars, retryVars, cfgVars, cmdVars, tplVars>>
  \/ HandleTestPaths
       /\ UNCHANGED <<loopVars, execVars, histVars, retryVars, cfgVars, cmdVars, tplVars>>

\* One call of setupPaths on any data, and the paths of the test script for
\* the same data
SpecPath == InitP /\ [][NextPath]_vars

\* A relative path as the control plane writes one: segments of letters
\* separated by single separators
WellFormed(s) ==
  /\ s # <<>>
  /\ s[1] # "/" /\ s[Len(s)] # "/"
  /\ \A i \in 1..(Len(s) - 1) : ~(s[i] = "/" /\ s[i + 1] = "/")

\* The path given with the redundant appDir prefix
Prefixed(appDir, p) == appDir \o <<"/">> \o p

\* C29: the resolved path is join(workspaceRoot, appDir if set, p') with p'
\* the path less one leading 'appDir/'; hence a filePath or originalFilePath
\* given with and without the redundant appDir prefix resolves to the same
\* absolute path.
C29_PathNormalization ==
  (pPc = "resolved" /\ WellFormed(data.appDir) /\ WellFormed(data.filePath))
    => /\ paths.filePath
            = PathJoin(PathJoin(repoRoot, data.appDir),
                       IF StartsWith(data.filePath, data.appDir \o <<"/">>)
                       THEN Substring(data.filePath, Len(data.appDir) + 1)
                       ELSE data.filePath)
       /\ setupPaths([data EXCEPT !.filePath = Prefixed(data.appDir, data.filePath)]).filePath
            = paths.filePath
       /\ WellFormed(data.originalFilePath)
            => setupPaths([data EXCEPT !.originalFilePath =
                                  Prefixed(data.appDir, data.originalFilePath)]).originalFilePath
                 = paths.originalFilePath

(***************************************************************************)
(* src/handleCommands.ts: the script templates                             *)
(*                                                                         *)
(* A template is the sequence of what Handlebars.compile parses it into:   *)
(* characters of text and {{name}} expressions.  A value and the rendered  *)
(* script are sequences of characters.                                     *)
(***************************************************************************)
Text(c) == [text |-> c]

Mustache(name) == [name |-> name]

IsText(token) == DOMAIN token = {"text"}

\* The placeholders the handlers supply (handleCommands.ts:339-341, 433-436,
\* 494-496) and one they do not
Placeholders == {"file", "originalFile", "testFilePaths", "unknown"}

TemplateTokens == {Text(c) : c \in {"p", " "}} \cup {Mustache(n) : n \in Placeholders}

Templates == UNION {[1..k -> TemplateTokens] : k \in 0..MaxTemplateLen}

\* Characters of a file path: a letter and two characters that HTML escapes
ValueChars == {"t", "&", "="}

Values == UNION {[1..k -> ValueChars] : k \in 1..MaxValueLen}

\* The context objects the handlers build: file for lint, file and
\* originalFile for test, testFilePaths for coverage
Contexts ==
  [file : {UNDEFINED} \cup {Str(v) : v \in Values},
   originalFile : {UNDEFINED, Str(<<"t">>)},
   testFilePaths : {UNDEFINED, Str(<<"t", " ", "t">>)}]

\* Handlebars.Utils.escapeExpression, for one character (the quotes and the
\* backtick are written by name)
EscapeChar(c) ==
  CASE c = "&" -> <<"&", "a", "m", "p", ";">>
    [] c = "<" -> <<"&", "l", "t", ";">>
    [] c = ">" -> <<"&", "g", "t", ";">>
    [] c = "double quote" -> <<"&", "q", "u", "o", "t", ";">>
    [] c = "single quote" -> <<"&", "#", "x", "2", "7", ";">>
    [] c = "backtick" -> <<"&", "#", "x", "6", "0", ";">>
    [] c = "=" -> <<"&", "#", "x", "3", "D", ";">>
    [] OTHER -> <<c>>

\* Handlebars.Utils.escapeExpression: what a {{name}} expression appends for
\* a value; nothing for undefined
RECURSIVE EscapeString(_)
EscapeString(s) ==
  IF s = <<>> THEN <<>> ELSE EscapeChar(Head(s)) \o EscapeString(Tail(s))

escapeExpression(value) ==
  IF value = UNDEFINED THEN <<>> ELSE EscapeString(value[1])

\* The lookup of a name in the context object
Lookup(ctx, name) == IF name \in DOMAIN ctx THEN ctx[name] ELSE UNDEFINED

\* Handlebars.compile(template)(context), handleCommands.ts:338-342, 432-436,
\* 493-496
RECURSIVE Render(_, _)
Render(tpl, ctx) ==
  IF tpl = <<>> THEN <<>>
  ELSE (IF IsText(Head(tpl)) THEN <<Head(tpl).text>>
        ELSE escapeExpression(Lookup(ctx, Head(tpl).name)))
       \o Render(Tail(tpl), ctx)

InitTemplate ==
  /\ tPc = "input"
  /\ template \in Templates
  /\ context \in Contexts
  /\ rendered = <<>>

\* handleCommands.ts:338-342, a script template is compiled and rendered
RenderScript ==
  /\ tPc = "input"
  /\ rendered' = Render(template, context)
  /\ tPc' = "rendered"
  /\ UNCHANGED <<template, context>>

InitT == InitTemplate /\ LoopIdle /\ ExecIdle /\ RetryIdle /\ CfgIdle /\ CmdIdle /\ PathIdle

NextTemplate ==
  RenderScript /\ UNCHANGED <<loopVars, execVars, histVars, retryVars, cfgVars, cmdVars, pathVars>>

\* One rendering of any template with any context
SpecTemplate == InitT /\ [][NextTemplate]_vars

\* The template with every placeholder replaced by exactly the value
\* supplied for it, by nothing if none is supplied
RECURSIVE Substituted(_, _)
Substituted(tpl, ctx) ==
  IF tpl = <<>> THEN <<>>
  ELSE (IF IsText(Head(tpl)) THEN <<Head(tpl).text>>
        ELSE IF Lookup(ctx, Head(tpl).name) = UNDEFINED THEN <<>>
        ELSE Lookup(ctx, Head(tpl).name)[1])
       \o Substituted(Tail(tpl), ctx)

\* C30: rendering a script template replaces every occurrence of a
\* placeholder (file, originalFile, testFilePaths) by exactly the string
\* supplied for it and leaves the rest of the template as it is; a
\* placeholder with no value supplied renders as the empty string.
C30_Templater == tPc = "rendered" => rendered = Substituted(template, context)

\* ---------------------------------------------------------------------------
\* Properties of the file actions' effects on the file system (SpecCmd)
\* ---------------------------------------------------------------------------

\* C31: write fails exactly when fileContents is absent; whenever fileContents
\* is present, for any string value, and the file system takes the write,
\* the write is begun and, when it is done with no other writer of the file
\* in between, the parent directory exists, the file holds fileContents and
\* the exit code is 0; and a read returns the contents the file holds, so a
\* read that follows the write returns exactly those contents.
C31_WriteThenRead ==
  [][\A i \in Jobs :
       /\ (command[i].action = "write" /\ HandleWrite(i, "ok")) =>
            ((hPc'[i] = "send" /\ result'[i].exitCode # Zero)
               <=> (command[i].fileContents = UNDEFINED))
       /\ (command[i].action = "write" /\ hPc[i] = "writing" /\ disk = Str(EMPTY)
             /\ WriteFileSettles(i)) =>
            /\ parentDirExists'
            /\ disk' = command[i].fileContents
            /\ result'[i].exitCode = Zero
       /\ (command[i].action = "read" /\ HandleRead(i, "ok")) =>
            (result'[i].exitCode = Zero /\ result'[i].fileContents = disk)]_vars

\* ---------------------------------------------------------------------------
\* Properties of the dispatch loop (Spec): terminate, the dedup sets, failed
\* polls and acks, exit
\* ---------------------------------------------------------------------------

\* C32: terminate pre-empts its batch.  The ack round in which the ack of a
\* terminate command succeeded hands no command to processCommands, puts
\* nothing on the limiter and ends the run; a terminate command is never
\* dispatched, never scheduled on the limiter and never gets a result.
C32_TerminatePreemptsBatch ==
  [][/\ (AckRoundEnds /\ TerminateAcked) =>
          /\ pc' = "exited"
          /\ dispatchLog' = dispatchLog /\ scheduleLog' = scheduleLog
          /\ UNCHANGED <<queue, running, jobStatus>>
     /\ \A t \in Ids : IsTerminate(t) =>
          /\ t \notin Range(Dispatched') /\ t \notin Range(scheduleLog')
          /\ jobStatus'[t] = "none"]_vars

\* The run ended on terminate, and a command acknowledged in the same ack
\* round was not handed to processCommands
C32_Witness ==
  /\ pc = "exited" /\ exitReason = "terminate"
  /\ \E t \in commandsSentToProcess : IsTerminate(t) /\ ackOutcome[t] = "ok"
  /\ \E id \in Ids : /\ ~IsTerminate(id) /\ ackOutcome[id] = "ok"
                     /\ id \notin commandsSentToProcess /\ id \notin Range(Dispatched)

\* C33: dedup-set invariant.  Before and after every step pendingAckCommands
\* and commandsSentToProcess are disjoint; commandsSentToProcess only grows;
\* pendingAckCommands is changed only by a poll that returned or by the end of
\* an ack round and commandsSentToProcess only by the end of an ack round, so
\* neither by a job that starts, runs or settles on the limiter.
C33_DedupSets ==
  [][/\ Pending \cap commandsSentToProcess = {}
     /\ Pending' \cap commandsSentToProcess' = {}
     /\ commandsSentToProcess \subseteq commandsSentToProcess'
     /\ pendingAckCommands' # pendingAckCommands => (PollSucceeded \/ AckRoundEnds)
     /\ commandsSentToProcess' # commandsSentToProcess => AckRoundEnds
     /\ <<queue, running, jobStatus>>' # <<queue, running, jobStatus>> =>
          (AckRoundEnds \/ UNCHANGED <<pendingAckCommands, commandsSentToProcess>>)]_vars

\* Commands are pending acknowledgment while dispatched ones are queued or
\* running and another one has settled
C33_Witness ==
  /\ Pending # {} /\ commandsSentToProcess # {}
  /\ JobsInFlight # {}
  /\ \E id \in commandsSentToProcess : jobStatus[id] \in {"resolved", "rejected"}

\* C34: a cycle whose poll fails, by a timeout or by another error, attempts
\* no ack and dispatches nothing.  The failed poll and the wait that follows
\* it leave pendingAckCommands, commandsSentToProcess, the ack outcomes and
\* the dispatch and schedule logs unchanged and lead to the inter-poll delay
\* or to the exit, and an ack round begins only with a poll that returned.
C34_FailedPollCycle ==
  [][/\ \A error \in PollFailures :
          (pc = "poll" /\ PollThrows(error)) =>
             /\ UNCHANGED <<pendingAckCommands, commandsSentToProcess, ackOutcome, ackedOk>>
             /\ UNCHANGED <<dispatchLog, scheduleLog, queue, running, jobStatus>>
             /\ pc' \in {"sleep", "errwait", "exited"}
     /\ (pc = "errwait" /\ pc' # "errwait") =>
          /\ pc' = "sleep"
          /\ UNCHANGED <<pendingAckCommands, commandsSentToProcess, ackOutcome, ackedOk>>
          /\ UNCHANGED <<dispatchLog, scheduleLog>>
     /\ (pc # "ack" /\ pc' = "ack") => PollSucceeded]_vars

\* A poll failed while a command was pending acknowledgment
C34_Witness ==
  /\ pc = "errwait" /\ consecutiveErrorCount > 0
  /\ Pending # {}
  /\ ackOutcome = NoAcks

\* The step settles the ack of id as failed, retries exhausted or not retried
AckFails(id) == pc = "ack" /\ ackOutcome[id] = "inflight" /\ ackOutcome'[id] = "fail"

\* C35: an ack failure is not fatal.  An ack that fails, and the end of an ack
\* round with failed acks, leave the consecutive poll-error counter unchanged
\* and do not end the run; the command stays in pendingAckCommands; an ack
\* round ends the run only on an acknowledged terminate, with code 0; and
\* while no ack has ever succeeded the run ends only by the polling duration,
\* by inactivity or by a failed poll.
C35_AckFailureIsNotFatal ==
  [][/\ \A id \in Ids : AckFails(id) =>
          /\ consecutiveErrorCount' = consecutiveErrorCount
          /\ pc' = "ack" /\ exitCode' = exitCode
          /\ id \in Range(pendingAckCommands')
     /\ AckRoundEnds =>
          /\ consecutiveErrorCount' = consecutiveErrorCount
          /\ \A id \in Pending : ackOutcome[id] = "fail" => id \in Range(pendingAckCommands')
          /\ pc' = "exited" => (TerminateAcked /\ exitCode' = 0)
          /\ (\A id \in Pending : ackOutcome[id] = "fail") => pc' = "sleep"
     /\ (pc # "exited" /\ pc' = "exited" /\ ackedOk' = {}) =>
          (exitReason' \in {"duration", "inactivity"} \/ PollFailed)]_vars

\* Two commands are pending after ack rounds in which every ack failed, and
\* the loop goes on
C35_Witness ==
  /\ pc = "sleep" /\ consecutiveErrorCount = 0
  /\ Len(pendingAckCommands) >= 2
  /\ ackedOk = {}

\* C36: exit does not wait for in-flight work.  Whether the loop-top check
\* ends the run is decided by the clock alone, jobs queued or running or not;
\* the step that ends the run, whatever its reason, leaves the limiter's queue
\* and the running jobs as they are; and once the process has exited no job
\* starts or settles, so no result is pushed for the jobs then in flight.
C36_ExitDoesNotWait ==
  [][/\ (pc = "top" /\ pc' # "top") =>
          (pc' = "exited" <=> (~LoopCondition(now) \/ Inactive(now, lastCommandReceivedTime)))
     /\ (pc # "exited" /\ pc' = "exited") => UNCHANGED <<queue, running, jobStatus>>
     /\ pc = "exited" => UNCHANGED <<queue, running, jobStatus, startLog, totalErrorCount>>]_vars

\* The process has exited on an acknowledged terminate while two dispatched
\* commands were running
C36_Witness ==
  /\ pc = "exited" /\ exitReason = "terminate"
  /\ Cardinality({id \in commandsSentToProcess : jobStatus[id] = "running"}) >= 2

(***************************************************************************)
(* Properties of one cycle: submission order (SpecCycle)                   *)
(***************************************************************************)
\* The ids of a poll response in the order of their first occurrence
RECURSIVE FirstOccurrences(_, _)
FirstOccurrences(seen, polledCommands) ==
  IF polledCommands = <<>> THEN seen
  ELSE FirstOccurrences(IF Head(polledCommands) \in Range(seen)
                          THEN seen ELSE Append(seen, Head(polledCommands)),
                        Tail(polledCommands))

\* C37: submission order.  pendingAckCommands holds the commands in the order
\* in which they were first polled, and an ack that settles, in whatever
\* order the acks of the cycle settle, does not change it; the commands
\* handed to processCommands are the acknowledged ones in the order of
\* pendingAckCommands, and those of them that have a processFn are appended
\* to the limiter's submissions in that same order.
C37_SubmissionOrder ==
  [][/\ \A polledCommands \in FirstResponses :
          (pc = "poll" /\ FirstPollReturns(polledCommands)) =>
             pendingAckCommands' = FirstOccurrences(<<>>, polledCommands)
     /\ (pc = "ack" /\ pc' = "ack") => pendingAckCommands' = pendingAckCommands
     /\ (AckRoundEnds /\ ~TerminateAcked) =>
          /\ NewBatch = SelectSeq(pendingAckCommands, LAMBDA id : ackOutcome[id] = "ok")
          /\ scheduleLog' = scheduleLog \o SelectSeq(NewBatch, IsSchedulable)]_vars

\* Two commands polled in the order 2, 1 and a third one whose ack failed:
\* the two were handed over and submitted in the order polled
C37_Witness ==
  /\ dispatchLog = <<<<2, 1>>>>
  /\ scheduleLog = <<2, 1>>
  /\ Len(pendingAckCommands) = 1

\* The step is the start of processFileCommand for command i, up to the
\* switch on the action
FileCommandStarts(i) ==
  hPc[i] = "scheduled" /\ command[i].type = "file" /\ hPc'[i] = FirstStepOf(command[i].action)

\* Command i is a file command inside the switch on its action
InAction(i) ==
  /\ command[i].type = "file"
  /\ hPc[i] \in {"write", "writing", "writing_unlinked", "lint", "read", "test", "coverage",
                 "delete"} \cup WithChild

\* C38: every file command, whatever its action, creates the missing parent
\* directories of its resolved path before the action runs: the directory
\* exists when the switch on the action is reached, the file is untouched by
\* that, and no action removes the directory.  A read, a lint without a lint
\* script and a delete of a missing file leave the file as it is.
C38_ParentDirectories ==
  [][\A i \in Jobs :
       /\ FileCommandStarts(i) => (parentDirExists' /\ disk' = disk)
       /\ InAction(i) => (parentDirExists /\ parentDirExists')
       /\ (\E outcome \in {"ok", "ENOENT", "EACCES"} : HandleRead(i, outcome))
            => disk' = disk
       /\ (~Truthy(scripts.lint) /\ HandleLint(i)) => disk' = disk
       /\ (disk = UNDEFINED
             /\ \E outcome \in {"ok", "ENOENT", "EACCES", "EISDIR"} : HandleDelete(i, outcome))
            => disk' = disk]_vars

\* A read of a file that does not exist has failed; the directory of the path
\* exists all the same
C38_Witness ==
  /\ Len(command) = 1
  /\ command[1].type = "file" /\ command[1].action = "read" /\ hPc[1] = "send"
  /\ result[1].exitCode # Zero
  /\ result[1].stderr = FsErrorMessage("ENOENT")
  /\ disk = UNDEFINED /\ parentDirExists

\* The results pushed for the file commands, each with the action asked for
PushedFileResults ==
  {[action |-> command[commandResults[k].id].action, result |-> commandResults[k].result] :
     k \in {n \in 1..Len(commandResults) : command[commandResults[n].id].type = "file"}}

\* C40: result shape of file commands.  In every CommandResult pushed by
\* processFileCommand the error is populated when the exit code is not 0 and
\* undefined when it is 0, and fileContents is present only in the results of
\* read, lint_read and write_lint_read and in the default result that no
\* handler has overwritten.
C40_ResultShape ==
  \A pushed \in PushedFileResults :
    /\ pushed.result.exitCode # Zero => Truthy(pushed.result.error)
    /\ pushed.result.exitCode = Zero => pushed.result.error = UNDEFINED
    /\ pushed.result.fileContents # UNDEFINED =>
         \/ pushed.action \in {"read", "lint_read", "write_lint_read"}
         \/ pushed.result = FileCommandResult(DefaultFileResult)

\* Results were pushed for a test that threw, without fileContents and with
\* the error
C40_Witness ==
  /\ Len(command) = 1
  /\ command[1].type = "file" /\ command[1].action = "test"
  /\ Len(commandResults) = 1
  /\ commandResults[1].result.exitCode = ExitNumber(1)
  /\ Truthy(commandResults[1].result.error)
  /\ commandResults[1].result.fileContents = UNDEFINED
  /\ commandResults[1].result.stderr = ActionError(<<"Test script is missing or invalid.">>)

(***************************************************************************)
(* Properties of the paths given to the scripts (SpecPath)                 *)
(***************************************************************************)
\* The file that a path written in a script denotes when the script runs in
\* the directory cwd
DenotedFrom(cwd, relativePath) == Segments(PathJoin(cwd, relativePath), <<>>)

\* C39: path agreement between actions.  For a well-formed filePath and an
\* appDir that is empty or well-formed, the path substituted for {file} in
\* the test script, taken relative to the base directory in which the script
\* runs, denotes the file that write, read, lint and delete resolve for the
\* same command data, and so does the path substituted for {originalFile};
\* this includes a file under a sub-directory of the base directory that is
\* named like appDir.
C39_PathAgreement ==
  (/\ pPc = "templated"
   /\ data.appDir = <<>> \/ WellFormed(data.appDir)
   /\ WellFormed(data.filePath))
    => /\ DenotedFrom(paths.baseDir, testContext.file) = Segments(paths.filePath, <<>>)
       /\ DenotedFrom(paths.baseDir, LintContext(data).file) = Segments(paths.filePath, <<>>)
       /\ WellFormed(data.originalFilePath) =>
            DenotedFrom(paths.baseDir, testContext.originalFile)
              = Segments(paths.originalFilePath, <<>>)

====
